---------------------------- MODULE Spec2Model ----------------------------
(***************************************************************************)
(* auth-action-rate-limiter: the token bucket, the key builder, the policy *)
(* engine, the decision combiner and the in-process MemoryStore.           *)
(*                                                                         *)
(* Conventions of the model                                                *)
(*  - a JavaScript string is a sequence of one-character strings, so that  *)
(*    concatenation, split and replace are computed and not assumed;       *)
(*  - an optional value (T | undefined) is a sequence of length 0 or 1;    *)
(*  - a Map is the sequence of its entries in insertion order, which is    *)
(*    the order a for..of loop and Array.from visit them in;               *)
(*  - token counts are real numbers in the code. A bucket of a rule holds  *)
(*    tokens * Scale(config) as an integer, Scale being refillIntervalMs:  *)
(*    every quantity the code derives from integer capacities, costs and   *)
(*    millisecond times is a multiple of 1 / refillIntervalMs, so the      *)
(*    scaled arithmetic is the exact real arithmetic of the code. Where    *)
(*    the rounding of the code's doubles decides the outcome (the promise  *)
(*    made by retryAfterMs), the same functions are given a second time,   *)
(*    suffixed _f64, over IEEE-754 doubles.                                *)
(***************************************************************************)
EXTENDS Integers, Sequences, FiniteSets, TLC

VARIABLES
    store,       \* MemoryStore.store: Map<string, StoreEntry>, insertion order
    options,     \* MemoryStore.options (defaults merged in)
    sweepTimer,  \* MemoryStore.sweepTimer is set (TRUE) or null (FALSE)
    isShutdown,  \* MemoryStore.isShutdown
    now,         \* the clock: Date.now(), and PolicyEngine.getTime by default
    last,        \* the last store call made at this clock reading, and its result
    policies,    \* PolicyEngine.policies
    calls,       \* the check() calls made so far, each with its locals and position
    pure         \* the last application of a pure function: inputs and output;
                 \* for the middleware, the requests handled and their responses

vars == <<store, options, sweepTimer, isShutdown, now, last, policies, calls, pure>>

-----------------------------------------------------------------------------
(* Bounds of the model *)

MaxTime == 2
MaxHighWaterMark == 2
MaxEvictionCount == 2
MaxResults == 3
MaxRetry == 2
MaxCapacity == 2
MaxCost == 2
MaxTtl == 2
MaxRefillTokens == 2
MaxRefillIntervalMs == 2
MaxCalls == 2
MaxSeqCalls == 3
MaxChain == 3
MaxNeeded == 4
MaxResetCalls == 6

-----------------------------------------------------------------------------
(* Small helpers *)

Min(a, b) == IF a <= b THEN a ELSE b

Max(a, b) == IF a >= b THEN a ELSE b

Range(s) == {s[i] : i \in 1..Len(s)}

-----------------------------------------------------------------------------
(* MemoryStore *)

DEFAULT_sweepIntervalMs == 60000
DEFAULT_highWaterMark == 100000
DEFAULT_evictionCount == 10000

DEFAULT_OPTIONS ==
    [sweepIntervalMs |-> DEFAULT_sweepIntervalMs,
     highWaterMark |-> DEFAULT_highWaterMark,
     evictionCount |-> DEFAULT_evictionCount]

\* { ...DEFAULT_OPTIONS, ...options }: given is a function on the option names
\* the caller passed.
MergeOptions(given) ==
    [k \in DOMAIN DEFAULT_OPTIONS |->
        IF k \in DOMAIN given THEN given[k] ELSE DEFAULT_OPTIONS[k]]

\* startSweeper: the timer is set unless sweepIntervalMs <= 0.
StartSweeper(opts) == opts.sweepIntervalMs > 0

\* Map.has / Map.get / Map.delete on the entry sequence.
MapHas(s, key) == \E i \in 1..Len(s) : s[i].key = key

MapIndex(s, key) == CHOOSE i \in 1..Len(s) : s[i].key = key

MapGet(s, key) == IF MapHas(s, key) THEN <<s[MapIndex(s, key)]>> ELSE <<>>

MapDelete(s, key) == SelectSeq(s, LAMBDA e : e.key # key)

MapKeys(s) == {s[i].key : i \in 1..Len(s)}

\* An expiry test under which an entry is still live at its expiresAt.
EntryExpired_Late(e, t) == t > e.state.expiresAt

\* now >= entry.state.expiresAt
EntryExpired(e, t) == t >= e.state.expiresAt

\* A get without the lazy expiration check.
StoreGet_NoExpiry(s, key, t) ==
    LET found == MapGet(s, key) IN
    IF found = <<>> THEN [store |-> s, value |-> <<>>]
    ELSE [store |-> [s EXCEPT ![MapIndex(s, key)].lastAccessedAt = t],
          value |-> <<found[1].state>>]

\* MemoryStore.get after checkShutdown: the new map and the returned value.
StoreGet(s, key, t) ==
    LET found == MapGet(s, key) IN
    IF found = <<>> THEN [store |-> s, value |-> <<>>]
    ELSE IF EntryExpired(found[1], t)
         THEN [store |-> MapDelete(s, key), value |-> <<>>]
         ELSE [store |-> [s EXCEPT ![MapIndex(s, key)].lastAccessedAt = t],
               value |-> <<found[1].state>>]

\* A has that counts as a touch, as get does.
StoreHas_Touch(s, key, t) ==
    LET found == MapGet(s, key) IN
    IF found = <<>> THEN [store |-> s, value |-> FALSE]
    ELSE IF EntryExpired(found[1], t)
         THEN [store |-> MapDelete(s, key), value |-> FALSE]
         ELSE [store |-> [s EXCEPT ![MapIndex(s, key)].lastAccessedAt = t],
               value |-> TRUE]

\* MemoryStore.has after checkShutdown.
StoreHas(s, key, t) ==
    LET found == MapGet(s, key) IN
    IF found = <<>> THEN [store |-> s, value |-> FALSE]
    ELSE IF EntryExpired(found[1], t)
         THEN [store |-> MapDelete(s, key), value |-> FALSE]
         ELSE [store |-> s, value |-> TRUE]

\* evictEntries, phase 1: the for..of loop over the map. rest is what the loop
\* has not visited yet, size the map's size at this point.
RECURSIVE EvictExpired(_, _, _, _)
EvictExpired(rest, size, targetSize, t) ==
    IF rest = <<>> THEN <<>>
    ELSE IF size <= targetSize THEN rest
    ELSE IF EntryExpired(Head(rest), t)
         THEN EvictExpired(Tail(rest), size - 1, targetSize, t)
         ELSE <<Head(rest)>> \o EvictExpired(Tail(rest), size, targetSize, t)

\* Array.prototype.sort with (a, b) => a.lastAccessedAt - b.lastAccessedAt:
\* a stable sort, written as an insertion sort.
RECURSIVE InsertSorted(_, _)
InsertSorted(sorted, e) ==
    IF sorted = <<>> THEN <<e>>
    ELSE IF Head(sorted).lastAccessedAt <= e.lastAccessedAt
         THEN <<Head(sorted)>> \o InsertSorted(Tail(sorted), e)
         ELSE <<e>> \o sorted

RECURSIVE SortByLastAccessed(_)
SortByLastAccessed(s) ==
    IF s = <<>> THEN <<>>
    ELSE InsertSorted(SortByLastAccessed(SubSeq(s, 1, Len(s) - 1)), s[Len(s)])

\* Phase 2 deleting from the wrong end of the sorted array.
EvictOldest_Newest(s, targetSize) ==
    IF Len(s) > targetSize
    THEN LET entries == SortByLastAccessed(s)
             toEvict == Len(s) - targetSize
             gone == {entries[i].key :
                         i \in (Len(entries) - Min(toEvict, Len(entries)) + 1)..Len(entries)}
         IN SelectSeq(s, LAMBDA e : e.key \notin gone)
    ELSE s

\* evictEntries, phase 2: delete the first toEvict entries of the sorted array.
EvictOldest(s, targetSize) ==
    IF Len(s) > targetSize
    THEN LET entries == SortByLastAccessed(s)
             toEvict == Len(s) - targetSize
             gone == {entries[i].key : i \in 1..Min(toEvict, Len(entries))}
         IN SelectSeq(s, LAMBDA e : e.key \notin gone)
    ELSE s

\* An eviction that stops after phase 1.
evictEntries_ExpiredOnly(s, opts, t) ==
    LET targetSize == opts.highWaterMark - opts.evictionCount IN
    EvictExpired(s, Len(s), targetSize, t)

\* An eviction that goes straight to phase 2.
evictEntries_OldestOnly(s, opts, t) ==
    LET targetSize == opts.highWaterMark - opts.evictionCount IN
    EvictOldest(s, targetSize)

\* evictEntries: phase 1, then phase 2 if the map is still over the target.
evictEntries(s, opts, t) ==
    LET targetSize == opts.highWaterMark - opts.evictionCount IN
    EvictOldest(EvictExpired(s, Len(s), targetSize, t), targetSize)

\* A set that checks the high-water mark before it looks for the key.
StoreSet_EvictFirst(s, opts, key, state, t) ==
    LET kept == IF Len(s) >= opts.highWaterMark THEN evictEntries(s, opts, t) ELSE s IN
    IF MapHas(kept, key)
    THEN [kept EXCEPT ![MapIndex(kept, key)] =
              [key |-> key, state |-> state, lastAccessedAt |-> t]]
    ELSE Append(kept, [key |-> key, state |-> state, lastAccessedAt |-> t])

\* A set that evicts only once the map is over the high-water mark.
StoreSet_OverLimit(s, opts, key, state, t) ==
    IF MapHas(s, key)
    THEN [s EXCEPT ![MapIndex(s, key)] =
              [key |-> key, state |-> state, lastAccessedAt |-> t]]
    ELSE LET kept == IF Len(s) > opts.highWaterMark
                     THEN evictEntries(s, opts, t) ELSE s
         IN Append(kept, [key |-> key, state |-> state, lastAccessedAt |-> t])

\* MemoryStore.set after checkShutdown.
StoreSet(s, opts, key, state, t) ==
    IF MapHas(s, key)
    THEN [s EXCEPT ![MapIndex(s, key)] =
              [key |-> key, state |-> state, lastAccessedAt |-> t]]
    ELSE LET kept == IF Len(s) >= opts.highWaterMark
                     THEN evictEntries(s, opts, t) ELSE s
         IN Append(kept, [key |-> key, state |-> state, lastAccessedAt |-> t])

\* A sweep that keeps an entry at the very time it expires.
StoreSweep_Late(s, t) == SelectSeq(s, LAMBDA e : t <= e.state.expiresAt)

\* MemoryStore.sweep after its isShutdown guard.
StoreSweep(s, t) == SelectSeq(s, LAMBDA e : ~EntryExpired(e, t))

-----------------------------------------------------------------------------
(* Token bucket (tokenBucket.ts). A config is [capacity, refillTokens,        *)
(* refillIntervalMs]; a state's tokens field holds tokens * Scale(config).   *)

\* Number.MAX_SAFE_INTEGER is 2^53 - 1; the model keeps it as the largest
\* number of its own integers, above every retry time a refill can give.
MAX_SAFE_INTEGER == 2147483647

Scale(config) == IF config.refillIntervalMs > 0 THEN config.refillIntervalMs ELSE 1

\* Math.ceil(n / d) for d > 0.
CeilDiv(n, d) == IF n <= 0 THEN -((-n) \div d) ELSE (n + d - 1) \div d

\* (elapsedMs / refillIntervalMs) * refillTokens, times Scale(config).
calculateRefillTokens(elapsedMs, config) ==
    IF elapsedMs <= 0 \/ config.refillIntervalMs <= 0 THEN 0
    ELSE elapsedMs * config.refillTokens

\* A refill that does not cap the tokens at the capacity.
refillBucket_Uncapped(state, config, currentTime) ==
    LET elapsedMs == currentTime - state.lastRefillTime IN
    IF elapsedMs <= 0 THEN state
    ELSE [state EXCEPT !.tokens = state.tokens + calculateRefillTokens(elapsedMs, config),
                       !.lastRefillTime = currentTime]

\* A refill without the guard on the elapsed time.
refillBucket_NoGuard(state, config, currentTime) ==
    LET elapsedMs == currentTime - state.lastRefillTime
        tokensToAdd == calculateRefillTokens(elapsedMs, config)
        newTokens == Min(config.capacity * Scale(config), state.tokens + tokensToAdd)
    IN [state EXCEPT !.tokens = newTokens, !.lastRefillTime = currentTime]

refillBucket(state, config, currentTime) ==
    LET elapsedMs == currentTime - state.lastRefillTime IN
    IF elapsedMs <= 0 THEN state
    ELSE LET tokensToAdd == calculateRefillTokens(elapsedMs, config)
             newTokens == Min(config.capacity * Scale(config), state.tokens + tokensToAdd)
         IN [state EXCEPT !.tokens = newTokens, !.lastRefillTime = currentTime]

\* A bucket created without tokens.
createBucket_Empty(config, currentTime, ttlMs) ==
    [tokens |-> 0,
     lastRefillTime |-> currentTime,
     createdAt |-> currentTime,
     expiresAt |-> currentTime + ttlMs]

createBucket(config, currentTime, ttlMs) ==
    [tokens |-> config.capacity * Scale(config),
     lastRefillTime |-> currentTime,
     createdAt |-> currentTime,
     expiresAt |-> currentTime + ttlMs]

\* A retry time computed also for tokens that are not needed.
calculateRetryAfterMs_Unguarded(tokensNeeded, config) ==
    IF config.refillTokens <= 0 \/ config.refillIntervalMs <= 0
    THEN MAX_SAFE_INTEGER
    ELSE CeilDiv(tokensNeeded, config.refillTokens)

\* A retry time rounded down.
calculateRetryAfterMs_Floor(tokensNeeded, config) ==
    IF tokensNeeded <= 0 THEN 0
    ELSE IF config.refillTokens <= 0 \/ config.refillIntervalMs <= 0
         THEN MAX_SAFE_INTEGER
         ELSE tokensNeeded \div config.refillTokens

\* tokensNeeded is scaled: Math.ceil((tokensNeeded / refillTokens) * refillIntervalMs).
calculateRetryAfterMs(tokensNeeded, config) ==
    IF tokensNeeded <= 0 THEN 0
    ELSE IF config.refillTokens <= 0 \/ config.refillIntervalMs <= 0
         THEN MAX_SAFE_INTEGER
         ELSE CeilDiv(tokensNeeded, config.refillTokens)

\* A consume that asks for more than the cost before it allows.
consumeTokens_Strict(state, config, cost, currentTime, ttlMs) ==
    LET refilledState == refillBucket(state, config, currentTime)
        price == cost * Scale(config)
    IN IF refilledState.tokens > price
       THEN LET newState == [refilledState EXCEPT !.tokens = refilledState.tokens - price,
                                                  !.expiresAt = currentTime + ttlMs]
            IN [allowed |-> TRUE, remainingTokens |-> newState.tokens,
                retryAfterMs |-> 0, bucketState |-> newState]
       ELSE [allowed |-> FALSE, remainingTokens |-> refilledState.tokens,
             retryAfterMs |-> calculateRetryAfterMs(price - refilledState.tokens, config),
             bucketState |-> [refilledState EXCEPT !.expiresAt = currentTime + ttlMs]]

\* A consume that leaves the expiry alone when it denies.
consumeTokens_KeepExpiry(state, config, cost, currentTime, ttlMs) ==
    LET refilledState == refillBucket(state, config, currentTime)
        price == cost * Scale(config)
    IN IF refilledState.tokens >= price
       THEN LET newState == [refilledState EXCEPT !.tokens = refilledState.tokens - price,
                                                  !.expiresAt = currentTime + ttlMs]
            IN [allowed |-> TRUE, remainingTokens |-> newState.tokens,
                retryAfterMs |-> 0, bucketState |-> newState]
       ELSE [allowed |-> FALSE, remainingTokens |-> refilledState.tokens,
             retryAfterMs |-> calculateRetryAfterMs(price - refilledState.tokens, config),
             bucketState |-> refilledState]

\* A consume that spends what the bucket has when it holds less than the cost.
consumeTokens_Overdraw(state, config, cost, currentTime, ttlMs) ==
    LET refilledState == refillBucket(state, config, currentTime)
        price == cost * Scale(config)
    IN IF refilledState.tokens >= price \/ refilledState.tokens > 0
       THEN LET newState == [refilledState EXCEPT
                                !.tokens = Max(refilledState.tokens - price, 0),
                                !.expiresAt = currentTime + ttlMs]
            IN [allowed |-> TRUE, remainingTokens |-> newState.tokens,
                retryAfterMs |-> 0, bucketState |-> newState]
       ELSE LET tokensNeeded == price - refilledState.tokens
                retryAfterMs == calculateRetryAfterMs(tokensNeeded, config)
                updatedState == [refilledState EXCEPT !.expiresAt = currentTime + ttlMs]
            IN [allowed |-> FALSE, remainingTokens |-> refilledState.tokens,
                retryAfterMs |-> retryAfterMs, bucketState |-> updatedState]

consumeTokens(state, config, cost, currentTime, ttlMs) ==
    LET refilledState == refillBucket(state, config, currentTime)
        price == cost * Scale(config)
    IN IF refilledState.tokens >= price
       THEN LET newState == [refilledState EXCEPT !.tokens = refilledState.tokens - price,
                                                  !.expiresAt = currentTime + ttlMs]
            IN [allowed |-> TRUE, remainingTokens |-> newState.tokens,
                retryAfterMs |-> 0, bucketState |-> newState]
       ELSE LET tokensNeeded == price - refilledState.tokens
                retryAfterMs == calculateRetryAfterMs(tokensNeeded, config)
                updatedState == [refilledState EXCEPT !.expiresAt = currentTime + ttlMs]
            IN [allowed |-> FALSE, remainingTokens |-> refilledState.tokens,
                retryAfterMs |-> retryAfterMs, bucketState |-> updatedState]

ruleToConfig(rule) ==
    [capacity |-> rule.capacity,
     refillTokens |-> rule.refillTokens,
     refillIntervalMs |-> rule.refillIntervalMs]

\* Math.ceil((capacity / refillTokens) * refillIntervalMs * 2) when the rule
\* gives no ttlMs (refillTokens > 0).
calculateDefaultTtl(rule) ==
    IF rule.ttlMs # <<>> THEN rule.ttlMs[1]
    ELSE CeilDiv(2 * rule.capacity * rule.refillIntervalMs, rule.refillTokens)

isBucketExpired(state, currentTime) == currentTime >= state.expiresAt

-----------------------------------------------------------------------------
(* Decisions (decision.ts) *)

captcha_required ==
    <<"c", "a", "p", "t", "c", "h", "a", "_", "r", "e", "q", "u", "i", "r", "e", "d">>

\* The for loop of combineRuleResults over the results not yet visited.
RECURSIVE CombineScan(_, _)
CombineScan(ruleResults, acc) ==
    IF ruleResults = <<>> THEN acc
    ELSE LET result == Head(ruleResults) IN
         CombineScan(Tail(ruleResults),
            IF result.outcome = "BLOCKED"
            THEN [acc EXCEPT !.hasBlock = TRUE,
                             !.maxRetryAfterMs = Max(acc.maxRetryAfterMs, result.retryAfterMs)]
            ELSE IF result.outcome = "CHALLENGE"
            THEN [acc EXCEPT !.hasChallenge = TRUE,
                             !.challengeHint =
                                 IF acc.challengeHint # <<>> /\ acc.challengeHint[1] # <<>>
                                 THEN acc.challengeHint ELSE result.challenge]
            ELSE acc)

ScanStart ==
    [hasBlock |-> FALSE, hasChallenge |-> FALSE, maxRetryAfterMs |-> 0,
     challengeHint |-> <<>>]

RECURSIVE MaxRetryOverAll(_)
MaxRetryOverAll(ruleResults) ==
    IF ruleResults = <<>> THEN 0
    ELSE Max(Head(ruleResults).retryAfterMs, MaxRetryOverAll(Tail(ruleResults)))

\* A combiner that takes the retry time from every result, blocked or not.
combineRuleResults_RetryOverAll(action, ruleResults, keys) ==
    LET scan == CombineScan(ruleResults, ScanStart) IN
    [allowed |-> ~scan.hasBlock,
     action |-> action,
     outcome |-> IF scan.hasBlock THEN "BLOCKED"
                 ELSE IF scan.hasChallenge THEN "CHALLENGE" ELSE "ALLOWED",
     retryAfterMs |-> MaxRetryOverAll(ruleResults),
     ruleResults |-> ruleResults,
     keys |-> keys,
     challenge |-> <<>>,
     failedDueToError |-> <<>>]

\* A combiner that takes the retry time of the last blocked result.
combineRuleResults_LastRetry(action, ruleResults, keys) ==
    LET scan == CombineScan(ruleResults, ScanStart)
        blocked == {i \in 1..Len(ruleResults) : ruleResults[i].outcome = "BLOCKED"}
    IN [allowed |-> ~scan.hasBlock,
        action |-> action,
        outcome |-> IF scan.hasBlock THEN "BLOCKED"
                    ELSE IF scan.hasChallenge THEN "CHALLENGE" ELSE "ALLOWED",
        retryAfterMs |-> IF blocked = {} THEN 0
                         ELSE ruleResults[CHOOSE i \in blocked :
                                              \A j \in blocked : j <= i].retryAfterMs,
        ruleResults |-> ruleResults,
        keys |-> keys,
        challenge |-> <<>>,
        failedDueToError |-> <<>>]

combineRuleResults(action, ruleResults, keys) ==
    IF Len(ruleResults) = 0
    THEN [allowed |-> TRUE, action |-> action, outcome |-> "ALLOWED", retryAfterMs |-> 0,
          ruleResults |-> <<>>, keys |-> keys, challenge |-> <<>>,
          failedDueToError |-> <<>>]
    ELSE LET scan == CombineScan(ruleResults, ScanStart)
             outcome == IF scan.hasBlock THEN "BLOCKED"
                        ELSE IF scan.hasChallenge THEN "CHALLENGE" ELSE "ALLOWED"
             allowed == ~scan.hasBlock
         IN [allowed |-> allowed,
             action |-> action,
             outcome |-> outcome,
             retryAfterMs |-> scan.maxRetryAfterMs,
             ruleResults |-> ruleResults,
             keys |-> keys,
             challenge |-> IF scan.challengeHint # <<>> /\ scan.challengeHint[1] # <<>>
                           THEN scan.challengeHint ELSE <<>>,
             failedDueToError |-> <<>>]

\* createErrorDecision: a store error turned into a decision by the fail mode.
\* The rule result's challenge text carries the error message, which the model
\* leaves out.
ERROR_RETRY_MS == 60000

store_error == <<"s", "t", "o", "r", "e", "_", "e", "r", "r", "o", "r">>

error == <<"e", "r", "r", "o", "r">>

createErrorDecision(action, failMode) ==
    LET allowed == (failMode = "open")
        outcome == IF allowed THEN "ALLOWED" ELSE "BLOCKED"
    IN [allowed |-> allowed,
        action |-> action,
        outcome |-> outcome,
        retryAfterMs |-> IF allowed THEN 0 ELSE ERROR_RETRY_MS,
        ruleResults |-> <<[ruleName |-> store_error, key |-> error,
                           allowed |-> allowed, outcome |-> outcome,
                           retryAfterMs |-> IF allowed THEN 0 ELSE ERROR_RETRY_MS,
                           remainingTokens |-> 0, challenge |-> <<error>>]>>,
        keys |-> <<>>,
        challenge |-> <<>>,
        failedDueToError |-> <<TRUE>>]

createAllowedDecision(action) ==
    [allowed |-> TRUE, action |-> action, outcome |-> "ALLOWED", retryAfterMs |-> 0,
     ruleResults |-> <<>>, keys |-> <<>>, challenge |-> <<>>, failedDueToError |-> <<>>]

-----------------------------------------------------------------------------
(* Key builder (keyBuilder.ts). A context is a function from the dimension   *)
(* tags it carries to their values.                                        *)

KEY_SEPARATOR == ":"

VALUE_SEPARATOR == "="

\* DefaultKeyExtractor.extract: the context's field of that name, if any.
extract(dimension, context) ==
    IF dimension \in DOMAIN context THEN <<context[dimension]>> ELSE <<>>

\* value.replace(/[:=]/g, '_')
sanitizeValue(value) ==
    [i \in 1..Len(value) |-> IF value[i] \in {":", "="} THEN "_" ELSE value[i]]

\* parts.join(KEY_SEPARATOR)
RECURSIVE Join(_)
Join(parts) ==
    IF parts = <<>> THEN <<>>
    ELSE IF Len(parts) = 1 THEN parts[1]
    ELSE parts[1] \o <<KEY_SEPARATOR>> \o Join(Tail(parts))

\* The loop of buildKey over the dimensions not yet visited: the parts pushed,
\* or nothing when a dimension is missing or empty.
RECURSIVE DimensionParts(_, _)
DimensionParts(dimensions, context) ==
    IF dimensions = <<>> THEN << <<>> >>
    ELSE LET value == extract(Head(dimensions), context) IN
         IF value = <<>> \/ value[1] = <<>> THEN <<>>
         ELSE LET rest == DimensionParts(Tail(dimensions), context) IN
              IF rest = <<>> THEN <<>>
              ELSE << <<Head(dimensions) \o <<VALUE_SEPARATOR>> \o sanitizeValue(value[1])>>
                      \o rest[1] >>

\* A buildKey that takes an empty value for a value.
buildKey_AllowEmpty(action, rule, context) ==
    IF \E d \in Range(rule.key) : d \notin DOMAIN context THEN <<>>
    ELSE <<Join(<<action, rule.name>> \o
               [n \in 1..Len(rule.key) |->
                   rule.key[n] \o <<VALUE_SEPARATOR>> \o sanitizeValue(context[rule.key[n]])])>>

\* buildKey: the key, or nothing (undefined).
buildKey(action, rule, context) ==
    LET parts == DimensionParts(rule.key, context) IN
    IF parts = <<>> THEN <<>>
    ELSE <<Join(<<action, rule.name>> \o parts[1])>>

-----------------------------------------------------------------------------
(* Policy engine (policyEngine.ts). A check() call is a record of its locals *)
(* and of where it is suspended:                                           *)
(*   awaitGet   at  await this.store.get(key)  (the map has been read)      *)
(*   awaitSet   at  await this.store.set(...)  (the map has been written)   *)
(*   awaitSkip  at  await this.evaluateRule(...) of a rule it skipped       *)
(*   done       the decision has been returned                             *)
(* An async MemoryStore method runs to its end when it is called; what the  *)
(* caller awaits is its settled promise. ops logs the store calls issued,   *)
(* each with the rule it was issued for and whether it threw.              *)

skipped == <<"s", "k", "i", "p", "p", "e", "d">>

action_tag == <<"a", "c", "t", "i", "o", "n">>

NewCall(context) ==
    [context |-> context, pc |-> "start", policy |-> <<>>, i |-> 0, t |-> 0,
     key |-> <<>>, got |-> <<>>, res |-> <<>>, ruleResults |-> <<>>, keys |-> <<>>,
     decision |-> <<>>, ops |-> <<>>]

Finish(call, decision) ==
    [call EXCEPT !.pc = "done", !.decision = <<decision>>, !.res = <<>>, !.got = <<>>]

\* A check() without its try/catch: the store's error leaves check().
Caught_Rethrow(call) == [call EXCEPT !.pc = "thrown"]

\* check()'s catch: the error becomes a decision by the policy's fail mode.
Caught(call) ==
    Finish(call, createErrorDecision(call.context[action_tag], call.policy[1].failMode))

\* evaluatePolicy from rule i on, up to the next await: the end of the rule
\* loop (combineRuleResults), or evaluateRule(rules[i]) up to its first await.
\* s is the map, down the store's isShutdown, t the clock.
EnterRule(call, i, s, down, t) ==
    LET policy == call.policy[1] IN
    IF i > Len(policy.rules)
    THEN [call |-> Finish(call, combineRuleResults(policy.id, call.ruleResults, call.keys)),
          store |-> s]
    ELSE LET rule == policy.rules[i]
             key == buildKey(policy.id, rule, call.context)
         IN IF key = <<>>
            THEN [call |-> [call EXCEPT
                      !.pc = "awaitSkip", !.i = i,
                      !.res = <<[ruleName |-> rule.name, key |-> skipped, allowed |-> TRUE,
                                 outcome |-> "ALLOWED", retryAfterMs |-> 0,
                                 remainingTokens |-> rule.capacity * Scale(ruleToConfig(rule)),
                                 challenge |-> <<>>]>>],
                  store |-> s]
            ELSE LET issued == [call EXCEPT !.i = i, !.t = t, !.key = key[1],
                                   !.ops = Append(@, [rule |-> i, op |-> "get", threw |-> down])]
                 IN IF down
                    THEN [call |-> Caught(issued), store |-> s]
                    ELSE LET r == StoreGet(s, key[1], t) IN
                         [call |-> [issued EXCEPT !.pc = "awaitGet", !.got = r.value],
                          store |-> r.store]

\* A rule result that blocks whatever the rule's mode.
RuleOutcome_ModeIgnored(rule, key, consumeResult) ==
    [ruleName |-> rule.name, key |-> key, allowed |-> consumeResult.allowed,
     outcome |-> IF consumeResult.allowed THEN "ALLOWED" ELSE "BLOCKED",
     retryAfterMs |-> consumeResult.retryAfterMs,
     remainingTokens |-> consumeResult.remainingTokens,
     challenge |-> <<>>]

\* The rule result evaluateRule returns from a consume.
RuleOutcome(rule, key, consumeResult) ==
    LET mode == IF rule.mode = <<>> THEN "block" ELSE rule.mode[1]
        outcome == IF consumeResult.allowed THEN "ALLOWED"
                   ELSE IF mode = "challenge" THEN "CHALLENGE" ELSE "BLOCKED"
    IN [ruleName |-> rule.name, key |-> key, allowed |-> consumeResult.allowed,
        outcome |-> outcome, retryAfterMs |-> consumeResult.retryAfterMs,
        remainingTokens |-> consumeResult.remainingTokens,
        challenge |-> IF outcome = "CHALLENGE" THEN <<captcha_required>> ELSE <<>>]

\* An evaluateRule whose failing store.set has stored the state all the same.
AfterGet_WriteThenThrow(call, s, opts, down, t) ==
    LET rule == call.policy[1].rules[call.i]
        config == ruleToConfig(rule)
        ttlMs == calculateDefaultTtl(rule)
        cost == IF rule.cost = <<>> THEN 1 ELSE rule.cost[1]
        bucketState == IF call.got = <<>> \/ isBucketExpired(call.got[1], call.t)
                       THEN createBucket(config, call.t, ttlMs)
                       ELSE call.got[1]
        consumeResult == consumeTokens(bucketState, config, cost, call.t, ttlMs)
        issued == [call EXCEPT !.ops = Append(@, [rule |-> call.i, op |-> "set", threw |-> down])]
        written == StoreSet(s, opts, call.key, consumeResult.bucketState, t)
    IN IF down
       THEN [call |-> Caught(issued), store |-> written]
       ELSE [call |-> [issued EXCEPT !.pc = "awaitSet", !.got = <<>>,
                           !.res = <<RuleOutcome(rule, call.key, consumeResult)>>],
             store |-> written]

\* evaluateRule from the value store.get gave to its await of store.set.
\* t is the clock as store.set reads it; the engine uses the time it took
\* before the get.
AfterGet(call, s, opts, down, t) ==
    LET rule == call.policy[1].rules[call.i]
        config == ruleToConfig(rule)
        ttlMs == calculateDefaultTtl(rule)
        cost == IF rule.cost = <<>> THEN 1 ELSE rule.cost[1]
        bucketState == IF call.got = <<>> \/ isBucketExpired(call.got[1], call.t)
                       THEN createBucket(config, call.t, ttlMs)
                       ELSE call.got[1]
        consumeResult == consumeTokens(bucketState, config, cost, call.t, ttlMs)
        issued == [call EXCEPT !.ops = Append(@, [rule |-> call.i, op |-> "set", threw |-> down])]
    IN IF down
       THEN [call |-> Caught(issued), store |-> s]
       ELSE [call |-> [issued EXCEPT !.pc = "awaitSet", !.got = <<>>,
                           !.res = <<RuleOutcome(rule, call.key, consumeResult)>>],
             store |-> StoreSet(s, opts, call.key, consumeResult.bucketState, t)]

\* An evaluatePolicy that reports no further result once a rule has blocked.
TakeResult_StopAtBlock(call) ==
    LET result == call.res[1]
        rule == call.policy[1].rules[call.i]
        blocked == \E k \in 1..Len(call.ruleResults) :
                       call.ruleResults[k].outcome = "BLOCKED"
    IN IF blocked THEN [call EXCEPT !.res = <<>>]
       ELSE [call EXCEPT
               !.keys = IF result.key # skipped THEN (rule.name :> result.key) @@ @ ELSE @,
               !.ruleResults = Append(@, result),
               !.res = <<>>]

\* evaluatePolicy taking the result of evaluateRule: keys, ruleResults.push.
TakeResult(call) ==
    LET result == call.res[1]
        rule == call.policy[1].rules[call.i]
    IN [call EXCEPT
           !.keys = IF result.key # skipped THEN (rule.name :> result.key) @@ @ ELSE @,
           !.ruleResults = Append(@, result),
           !.res = <<>>]

\* The names this.policies[action] finds on an object that holds no such
\* policy: policies is a plain object, and a property read walks on to
\* Object.prototype, whose members are functions, __proto__ an object.
ObjectPrototypeNames ==
    {<<"c", "o", "n", "s", "t", "r", "u", "c", "t", "o", "r">>,
     <<"_", "_", "p", "r", "o", "t", "o", "_", "_">>,
     <<"h", "a", "s", "O", "w", "n", "P", "r", "o", "p", "e", "r", "t", "y">>,
     <<"i", "s", "P", "r", "o", "t", "o", "t", "y", "p", "e", "O", "f">>,
     <<"p", "r", "o", "p", "e", "r", "t", "y", "I", "s", "E", "n", "u", "m", "e", "r", "a", "b", "l", "e">>,
     <<"t", "o", "L", "o", "c", "a", "l", "e", "S", "t", "r", "i", "n", "g">>,
     <<"t", "o", "S", "t", "r", "i", "n", "g">>,
     <<"v", "a", "l", "u", "e", "O", "f">>,
     <<"_", "_", "d", "e", "f", "i", "n", "e", "G", "e", "t", "t", "e", "r", "_", "_">>,
     <<"_", "_", "d", "e", "f", "i", "n", "e", "S", "e", "t", "t", "e", "r", "_", "_">>,
     <<"_", "_", "l", "o", "o", "k", "u", "p", "G", "e", "t", "t", "e", "r", "_", "_">>,
     <<"_", "_", "l", "o", "o", "k", "u", "p", "S", "e", "t", "t", "e", "r", "_", "_">>}

\* this.policies[action]: the policy of that name, a member of
\* Object.prototype, or undefined.
PolicyLookup(pols, action) ==
    IF action \in DOMAIN pols THEN "own"
    ELSE IF action \in ObjectPrototypeNames THEN "inherited"
    ELSE "undefined"

\* check() up to its first await. An inherited member is truthy and goes to
\* evaluatePolicy, where for (const rule of policy.rules) throws on the
\* undefined rules; the catch reads its failMode, undefined as well.
StartCheck(context, pols, s, down, t) ==
    LET action == context[action_tag]
        policy == PolicyLookup(pols, action)
    IN IF policy = "undefined"
       THEN [call |-> Finish(NewCall(context), createAllowedDecision(action)), store |-> s]
       ELSE IF policy = "inherited"
       THEN [call |-> Finish(NewCall(context), createErrorDecision(action, "undefined")),
             store |-> s]
       ELSE EnterRule([NewCall(context) EXCEPT !.policy = <<pols[action]>>], 1, s, down, t)

\* A suspended call runs to its next await.
ResumeCall(call, s, opts, down, t) ==
    IF call.pc = "awaitGet" THEN AfterGet(call, s, opts, down, t)
    ELSE EnterRule(TakeResult(call), call.i + 1, s, down, t)

-----------------------------------------------------------------------------
(* The direct callers of a MemoryStore *)

StoreKeys == {<<"a">>, <<"b">>, <<"c">>}

\* The bucket states a direct caller hands to set: the store reads expiresAt only.
\* One expires as the clock reaches 1, the other outlives the run.
StoreStates ==
    {[tokens |-> 1, lastRefillTime |-> 0, createdAt |-> 0, expiresAt |-> x] :
        x \in {1, MaxTime + 1}}

\* What a caller passes to the constructor: a high water mark and an eviction
\* count; the sweep interval is left at its default.
GivenOptions ==
    {g \in [{"highWaterMark", "evictionCount"} ->
                0..Max(MaxHighWaterMark, MaxEvictionCount)] :
        /\ g.highWaterMark \in 1..MaxHighWaterMark
        /\ g.evictionCount \in 0..MaxEvictionCount}

NoCall == [op |-> "none", key |-> <<>>, threw |-> FALSE, value |-> <<>>,
           entry |-> <<>>, pre |-> <<>>, evicting |-> FALSE]

NoPure == [fn |-> "none"]

InitStore(given) ==
    /\ options = MergeOptions(given)
    /\ store = <<>>
    /\ sweepTimer = StartSweeper(MergeOptions(given))
    /\ isShutdown = FALSE
    /\ now = 0
    /\ last = NoCall

Init ==
    /\ \E given \in GivenOptions : InitStore(given)
    /\ policies = <<>>
    /\ calls = <<>>
    /\ pure = NoPure

\* checkShutdown throws: the call rejects and nothing else happens.
Rejected(op, key) ==
    /\ isShutdown
    /\ last' = [NoCall EXCEPT !.op = op, !.key = key, !.threw = TRUE]
    /\ UNCHANGED <<store, options, sweepTimer, isShutdown, now, policies, calls, pure>>

Get(key) ==
    \/ Rejected("get", key)
    \/ /\ ~isShutdown
       /\ LET r == StoreGet(store, key, now) IN
          /\ store' = r.store
          /\ last' = [NoCall EXCEPT !.op = "get", !.key = key, !.value = r.value,
                                    !.entry = MapGet(store, key)]
       /\ UNCHANGED <<options, sweepTimer, isShutdown, now, policies, calls, pure>>

Has(key) ==
    \/ Rejected("has", key)
    \/ /\ ~isShutdown
       /\ LET r == StoreHas(store, key, now) IN
          /\ store' = r.store
          /\ last' = [NoCall EXCEPT !.op = "has", !.key = key, !.value = <<r.value>>,
                                    !.entry = MapGet(store, key)]
       /\ UNCHANGED <<options, sweepTimer, isShutdown, now, policies, calls, pure>>

Set(key, state) ==
    \/ Rejected("set", key)
    \/ /\ ~isShutdown
       /\ store' = StoreSet(store, options, key, state, now)
       /\ last' = [NoCall EXCEPT
               !.op = "set", !.key = key, !.entry = MapGet(store, key),
               !.evicting = ~MapHas(store, key) /\ Len(store) >= options.highWaterMark,
               !.pre = IF ~MapHas(store, key) /\ Len(store) >= options.highWaterMark
                       THEN store ELSE <<>>]
       /\ UNCHANGED <<options, sweepTimer, isShutdown, now, policies, calls, pure>>

Delete(key) ==
    \/ Rejected("delete", key)
    \/ /\ ~isShutdown
       /\ store' = MapDelete(store, key)
       /\ last' = [NoCall EXCEPT !.op = "delete", !.key = key]
       /\ UNCHANGED <<options, sweepTimer, isShutdown, now, policies, calls, pure>>

Size ==
    \/ Rejected("size", <<>>)
    \/ /\ ~isShutdown
       /\ last' = [NoCall EXCEPT !.op = "size", !.value = <<Len(store)>>]
       /\ UNCHANGED <<store, options, sweepTimer, isShutdown, now, policies, calls, pure>>

Clear ==
    \/ Rejected("clear", <<>>)
    \/ /\ ~isShutdown
       /\ store' = <<>>
       /\ last' = [NoCall EXCEPT !.op = "clear"]
       /\ UNCHANGED <<options, sweepTimer, isShutdown, now, policies, calls, pure>>

\* A shutdown that clears the map but leaves the sweep timer running.
Shutdown_KeepTimer ==
    /\ IF isShutdown
       THEN UNCHANGED <<store, sweepTimer, isShutdown>>
       ELSE /\ isShutdown' = TRUE
            /\ store' = <<>>
            /\ UNCHANGED sweepTimer
    /\ last' = [NoCall EXCEPT !.op = "shutdown"]
    /\ UNCHANGED <<options, now, policies, calls, pure>>

Shutdown ==
    /\ IF isShutdown
       THEN UNCHANGED <<store, sweepTimer, isShutdown>>
       ELSE /\ isShutdown' = TRUE
            /\ sweepTimer' = FALSE
            /\ store' = <<>>
    /\ last' = [NoCall EXCEPT !.op = "shutdown"]
    /\ UNCHANGED <<options, now, policies, calls, pure>>

\* The setInterval callback: it runs only while the timer is set.
Sweep ==
    /\ sweepTimer
    /\ store' = IF isShutdown THEN store ELSE StoreSweep(store, now)
    /\ last' = [NoCall EXCEPT !.op = "sweep", !.pre = store]
    /\ UNCHANGED <<options, sweepTimer, isShutdown, now, policies, calls, pure>>

\* Time passes. last describes a call made at the present clock reading, so a
\* tick forgets it.
Tick ==
    /\ now < MaxTime
    /\ now' = now + 1
    /\ last' = NoCall
    /\ UNCHANGED <<store, options, sweepTimer, isShutdown, policies, calls, pure>>

Next ==
    \/ \E key \in StoreKeys : Get(key)
    \/ \E key \in StoreKeys : Has(key)
    \/ \E key \in StoreKeys, state \in StoreStates : Set(key, state)
    \/ \E key \in StoreKeys : Delete(key)
    \/ Size
    \/ Clear
    \/ Shutdown
    \/ Sweep
    \/ Tick

Spec == Init /\ [][Next]_vars

-----------------------------------------------------------------------------
(* The pure functions, applied to inputs drawn from bounded sets. Each run  *)
(* is one application: the applications do not depend on one another.      *)

Configs ==
    [capacity : 0..MaxCapacity,
     refillTokens : 1..MaxRefillTokens,
     refillIntervalMs : 1..MaxRefillIntervalMs]

\* The bucket states of a config: any token count up to the capacity.
BucketStates(config) ==
    [tokens : 0..(config.capacity * Scale(config)),
     lastRefillTime : 0..MaxTime,
     createdAt : {0},
     expiresAt : {MaxTime + 1}]

\* The rule results a combiner can be handed: one per outcome and retry time.
RuleResults ==
    {[ruleName |-> <<"r">>, key |-> <<"k">>,
      allowed |-> (o # "BLOCKED"), outcome |-> o, retryAfterMs |-> r,
      remainingTokens |-> 0,
      challenge |-> IF o = "CHALLENGE" THEN <<captcha_required>> ELSE <<>>] :
        o \in {"ALLOWED", "BLOCKED", "CHALLENGE"}, r \in 0..MaxRetry}

ResultLists == UNION {[1..n -> RuleResults] : n \in 0..MaxResults}

InitPure ==
    /\ InitStore(<<>>)
    /\ policies = <<>>
    /\ calls = <<>>
    /\ pure = NoPure

ApplyConsumeTokens ==
    /\ pure = NoPure
    /\ \E config \in Configs : \E state \in BucketStates(config) :
       \E cost \in 0..MaxCost, currentTime \in 0..MaxTime, ttlMs \in 0..MaxTtl :
           pure' = [fn |-> "consumeTokens", state |-> state, config |-> config,
                    cost |-> cost, currentTime |-> currentTime, ttlMs |-> ttlMs,
                    result |-> consumeTokens(state, config, cost, currentTime, ttlMs)]
    /\ UNCHANGED <<store, options, sweepTimer, isShutdown, now, last, policies, calls>>

ApplyCombineRuleResults ==
    /\ pure = NoPure
    /\ \E ruleResults \in ResultLists :
           pure' = [fn |-> "combineRuleResults", ruleResults |-> ruleResults,
                    result |-> combineRuleResults(<<"a">>, ruleResults, <<>>)]
    /\ UNCHANGED <<store, options, sweepTimer, isShutdown, now, last, policies, calls>>

\* The configs refillBucket is handed: refillTokens and refillIntervalMs from 0.
RefillConfigs ==
    [capacity : 0..MaxCapacity,
     refillTokens : 0..MaxRefillTokens,
     refillIntervalMs : 0..MaxRefillIntervalMs]

ApplyRefillBucket ==
    /\ pure = NoPure
    /\ \E config \in RefillConfigs : \E state \in BucketStates(config) :
       \E currentTime \in 0..MaxTime :
           pure' = [fn |-> "refillBucket", state |-> state, config |-> config,
                    currentTime |-> currentTime,
                    result |-> refillBucket(state, config, currentTime)]
    /\ UNCHANGED <<store, options, sweepTimer, isShutdown, now, last, policies, calls>>

NextPure ==
    \/ ApplyConsumeTokens
    \/ ApplyCombineRuleResults
    \/ ApplyRefillBucket

SpecPure == InitPure /\ [][NextPure]_vars

ResultSet(ruleResults) == Range(ruleResults)

MaxOf(S) == CHOOSE x \in S : \A y \in S : y <= x

-----------------------------------------------------------------------------
(* check() calls in flight against one MemoryStore *)

ip == <<"i", "p">>

emailHash == <<"e", "m", "a", "i", "l", "H", "a", "s", "h">>

test_action == <<"t">>

unknown_action == <<"u">>

per_ip ==
    [name |-> <<"p", "e", "r", "_", "i", "p">>, key |-> <<ip>>,
     capacity |-> 1, refillTokens |-> 1, refillIntervalMs |-> 1,
     cost |-> <<>>, mode |-> <<>>, ttlMs |-> <<>>]

per_email(mode) ==
    [name |-> <<"p", "e", "r", "_", "e", "m", "a", "i", "l">>, key |-> <<emailHash>>,
     capacity |-> 2, refillTokens |-> 1, refillIntervalMs |-> 2,
     cost |-> <<2>>, mode |-> mode, ttlMs |-> <<>>]

\* The policy maps an engine is built with: one action, two rules, either
\* fail mode, the second rule blocking or challenging.
EnginePolicies ==
    {(test_action :> [id |-> test_action, rules |-> <<per_ip, per_email(mode)>>,
                      failMode |-> failMode]) :
        failMode \in {"open", "closed"}, mode \in {<<>>, <<"challenge">>}}

\* The request contexts: with and without each dimension, an empty ip, and an
\* action no policy names.
Contexts ==
    {(action_tag :> test_action) @@ (ip :> <<"1">>),
     (action_tag :> test_action) @@ (ip :> <<"1">>) @@ (emailHash :> <<"x">>),
     (action_tag :> test_action) @@ (ip :> <<>>) @@ (emailHash :> <<"x">>),
     (action_tag :> test_action),
     (action_tag :> unknown_action) @@ (ip :> <<"1">>)}

Suspended(call) == call.pc \in {"awaitGet", "awaitSet", "awaitSkip"}

InitEngine ==
    /\ InitStore(<<>>)
    /\ policies \in EnginePolicies
    /\ calls = <<>>
    /\ pure = NoPure

\* A caller invokes check(context): it runs to its first await.
Check(context) ==
    /\ Len(calls) < MaxCalls
    /\ LET r == StartCheck(context, policies, store, isShutdown, now) IN
       /\ calls' = Append(calls, r.call)
       /\ store' = r.store
    /\ UNCHANGED <<options, sweepTimer, isShutdown, now, last, policies, pure>>

\* The event loop resumes a suspended call, which runs to its next await.
Resume(n) ==
    /\ Suspended(calls[n])
    /\ LET r == ResumeCall(calls[n], store, options, isShutdown, now) IN
       /\ calls' = [calls EXCEPT ![n] = r.call]
       /\ store' = r.store
    /\ UNCHANGED <<options, sweepTimer, isShutdown, now, last, policies, pure>>

NextEngine ==
    \/ \E context \in Contexts : Check(context)
    \/ \E n \in 1..Len(calls) : Resume(n)
    \/ Shutdown
    \/ Sweep
    \/ Tick

SpecEngine == InitEngine /\ [][NextEngine]_vars

-----------------------------------------------------------------------------
(* Sequential check() calls of one context with the clock standing still *)

\* The single-rule block-mode policies: every capacity, cost, refill and ttl
\* of the bounds, the ttl also left to its default.
SeqRules ==
    {[name |-> per_ip.name, key |-> <<ip>>, capacity |-> c.capacity,
      refillTokens |-> c.refillTokens, refillIntervalMs |-> c.refillIntervalMs,
      cost |-> <<cost>>, mode |-> <<"block">>, ttlMs |-> ttlMs] :
        c \in Configs, cost \in 1..MaxCost,
        ttlMs \in {<<>>} \cup {<<x>> : x \in 0..MaxTtl}}

SeqPolicies ==
    {(test_action :> [id |-> test_action, rules |-> <<rule>>, failMode |-> "closed"]) :
        rule \in SeqRules}

SeqContext == (action_tag :> test_action) @@ (ip :> <<"1">>)

InitSeq ==
    /\ InitStore(<<>>)
    /\ policies \in SeqPolicies
    /\ calls = <<>>
    /\ pure = NoPure

\* The caller awaits each check before it makes the next.
CheckNext ==
    /\ Len(calls) < MaxSeqCalls
    /\ \A n \in 1..Len(calls) : calls[n].pc = "done"
    /\ LET r == StartCheck(SeqContext, policies, store, isShutdown, now) IN
       /\ calls' = Append(calls, r.call)
       /\ store' = r.store
    /\ UNCHANGED <<options, sweepTimer, isShutdown, now, last, policies, pure>>

NextSeq ==
    \/ CheckNext
    \/ \E n \in 1..Len(calls) : Resume(n)
    \/ Sweep

SpecSeq == InitSeq /\ [][NextSeq]_vars

-----------------------------------------------------------------------------
(* Policy engine: concurrent and sequential checks, store errors, skips *)

Done(call) == call.pc = "done"

FailedDueToError(call) == Done(call) /\ call.decision[1].failedDueToError = <<TRUE>>

CostOf(rule) == IF rule.cost = <<>> THEN 1 ELSE rule.cost[1]

\* The calls that have returned an ALLOWED decision, no store error met, after
\* checking key under rule.
AllowedOn(rule, key) ==
    {n \in 1..Len(calls) :
        /\ Done(calls[n])
        /\ ~FailedDueToError(calls[n])
        /\ calls[n].decision[1].outcome = "ALLOWED"
        /\ rule.name \in DOMAIN calls[n].decision[1].keys
        /\ calls[n].decision[1].keys[rule.name] = key}

\* The calls whose consume of key under rule was allowed.
SpentOn(rule, key) ==
    {n \in 1..Len(calls) :
        /\ Done(calls[n])
        /\ ~FailedDueToError(calls[n])
        /\ \E x \in Range(calls[n].decision[1].ruleResults) :
              x.ruleName = rule.name /\ x.key = key /\ x.allowed}

KeysOf(rule) ==
    {calls[n].decision[1].keys[rule.name] :
        n \in {m \in 1..Len(calls) :
                  /\ Done(calls[m])
                  /\ rule.name \in DOMAIN calls[m].decision[1].keys}}

AllRules == UNION {Range(policies[a].rules) : a \in DOMAIN policies}

\* C1 as stated: with the clock fixed and every bucket fresh at the start, for
\* any interleaving of check() calls of one key no more than
\* floor(capacity / cost) of them return allowed, and once they have all
\* returned the stored tokens are the capacity less the cost of each allowed
\* consume.
C1_NoLostUpdate ==
    (now = 0 /\ ~isShutdown) =>
        \A rule \in AllRules : \A key \in KeysOf(rule) :
            /\ Cardinality(AllowedOn(rule, key)) <= rule.capacity \div CostOf(rule)
            /\ ((\A n \in 1..Len(calls) : Done(calls[n])) /\ MapHas(store, key))
                  => MapGet(store, key)[1].state.tokens =
                         (rule.capacity - CostOf(rule) * Cardinality(SpentOn(rule, key)))
                             * Scale(ruleToConfig(rule))

SeqRule == policies[test_action].rules[1]

\* ceil((cost - remainingTokens) / refillTokens * refillIntervalMs), the
\* remaining tokens being scaled.
ExpectedRetry(rule, remaining) ==
    CeilDiv(CostOf(rule) * Scale(ruleToConfig(rule)) - remaining, rule.refillTokens)

SeqAsClaimed ==
    \A n \in 1..Len(calls) :
        Done(calls[n]) =>
            LET d == calls[n].decision[1] IN
            IF n <= SeqRule.capacity \div CostOf(SeqRule)
            THEN d.allowed
            ELSE /\ ~d.allowed
                 /\ d.outcome = "BLOCKED"
                 /\ d.retryAfterMs = ExpectedRetry(SeqRule, d.ruleResults[1].remainingTokens)

\* C2 as stated: of N sequential checks of one context with no clock advance,
\* exactly the first min(N, floor(capacity / cost)) are allowed and the rest
\* are BLOCKED with retryAfterMs = ceil((cost - remaining) / refillTokens *
\* refillIntervalMs), for every single-rule block-mode policy.
C2_SequentialQuota_AsStated == SeqAsClaimed

\* C2 amended: the same, for a rule whose ttl (ttlMs, or the default ttl when
\* ttlMs is not given) is > 0.
C2_SequentialQuota == calculateDefaultTtl(SeqRule) > 0 => SeqAsClaimed

C2_Witness ==
    /\ calculateDefaultTtl(SeqRule) > 0
    /\ Len(calls) = 3
    /\ \A n \in 1..3 : Done(calls[n])
    /\ calls[1].decision[1].allowed
    /\ calls[2].decision[1].allowed
    /\ calls[3].decision[1].outcome = "BLOCKED"
    /\ calls[3].decision[1].retryAfterMs > 0

\* C5: a check() whose store.get or store.set throws does not throw: it
\* returns a decision with failedDueToError, which is {allowed FALSE, BLOCKED,
\* retryAfterMs 60000} under failMode closed and {allowed TRUE, ALLOWED,
\* retryAfterMs 0} under failMode open.
C5_StoreErrorDecision ==
    \A n \in 1..Len(calls) :
        (\E o \in Range(calls[n].ops) : o.threw) =>
            /\ Done(calls[n])
            /\ LET d == calls[n].decision[1]
                   failMode == policies[calls[n].context[action_tag]].failMode
               IN /\ d.failedDueToError = <<TRUE>>
                  /\ failMode = "closed" =>
                        ~d.allowed /\ d.outcome = "BLOCKED" /\ d.retryAfterMs = 60000
                  /\ failMode = "open" =>
                        d.allowed /\ d.outcome = "ALLOWED" /\ d.retryAfterMs = 0

\* A check whose get went through and whose set threw, under failMode open.
C5_Witness ==
    \E n \in 1..Len(calls) :
        /\ \E o \in Range(calls[n].ops) : o.op = "set" /\ o.threw
        /\ \E o \in Range(calls[n].ops) : o.op = "get" /\ ~o.threw
        /\ Done(calls[n])
        /\ calls[n].decision[1].allowed
        /\ calls[n].decision[1].failedDueToError = <<TRUE>>

\* Some declared dimension of the rule is absent from the context or empty.
MissingDimension(rule, context) ==
    \E d \in Range(rule.key) : d \notin DOMAIN context \/ context[d] = <<>>

SkipResult(rule) ==
    [ruleName |-> rule.name, key |-> skipped, allowed |-> TRUE, outcome |-> "ALLOWED",
     retryAfterMs |-> 0, remainingTokens |-> rule.capacity * Scale(ruleToConfig(rule)),
     challenge |-> <<>>]

\* The rules of a call's policy that its context cannot build a key for.
SkippedRules(call) ==
    IF call.policy = <<>> THEN {}
    ELSE {i \in 1..Len(call.policy[1].rules) :
             MissingDimension(call.policy[1].rules[i], call.context)}

C6_SkipState ==
    \A n \in 1..Len(calls) : \A i \in SkippedRules(calls[n]) :
        LET call == calls[n]
            rule == call.policy[1].rules[i]
        IN /\ \A o \in Range(call.ops) : o.rule # i
           /\ rule.name \notin DOMAIN call.keys
           /\ i <= Len(call.ruleResults) => call.ruleResults[i] = SkipResult(rule)
           /\ (call.pc = "awaitSkip" /\ call.i = i) => call.res = <<SkipResult(rule)>>
           /\ (Done(call) /\ ~FailedDueToError(call)) =>
                 /\ call.decision[1].ruleResults[i] = SkipResult(rule)
                 /\ rule.name \notin DOMAIN call.decision[1].keys

\* The step that skips a rule leaves the map as it is.
C6_SkipStep ==
    \A n \in 1..Len(calls') :
        (/\ calls'[n].pc = "awaitSkip"
         /\ (n > Len(calls) \/ calls[n] # calls'[n]))
        => store' = store

-----------------------------------------------------------------------------
(* MemoryStore: lazy expiry and high-water-mark eviction *)

\* The entries of a map, as a set.
Entries(s) == Range(s)

Expired(s, t) == {e \in Entries(s) : EntryExpired(e, t)}

Live(s, t) == {e \in Entries(s) : ~EntryExpired(e, t)}

\* The entries of the map before an evicting set that the map no longer holds.
Removed == {e \in Entries(last.pre) : ~MapHas(store, e.key)}

Survivors == {e \in Entries(last.pre) : MapHas(store, e.key)}

TargetSize == options.highWaterMark - options.evictionCount

\* C7: get and has never report an entry whose expiresAt <= now: the call
\* deletes it and answers undefined / false, swept or not.
C7_LazyExpiry ==
    (/\ last.op \in {"get", "has"}
     /\ ~last.threw
     /\ last.entry # <<>>
     /\ last.entry[1].state.expiresAt <= now)
    => /\ last.value = (IF last.op = "get" THEN <<>> ELSE <<FALSE>>)
       /\ ~MapHas(store, last.key)

C7_Witness ==
    /\ last.op = "get"
    /\ last.entry # <<>>
    /\ last.entry[1].state.expiresAt <= now
    /\ last.value = <<>>

\* C8 as stated: after a set of a new key that triggers eviction the size is
\* <= highWaterMark - evictionCount + 1, for every configuration.
C8_SizeAfterEviction_AsStated ==
    (last.op = "set" /\ last.evicting)
    => Len(store) <= options.highWaterMark - options.evictionCount + 1

\* C8 amended: after a set of a new key that triggers eviction the size is
\* <= max(highWaterMark - evictionCount, 0) + 1.
C8_SizeAfterEviction ==
    (last.op = "set" /\ last.evicting)
    => Len(store) <= Max(options.highWaterMark - options.evictionCount, 0) + 1

C8_Witness ==
    /\ last.op = "set"
    /\ last.evicting
    /\ options.evictionCount <= options.highWaterMark
    /\ Removed # {}
    /\ Len(store) = options.highWaterMark - options.evictionCount + 1

\* C9: an evicting set removes an unexpired entry only if it has removed every
\* entry that was expired when it ran.
C9_ExpiredBeforeLive ==
    (last.op = "set" /\ last.evicting)
    => ((Removed \cap Live(last.pre, now) # {})
        => Expired(last.pre, now) \subseteq Removed)

C9_Witness ==
    /\ last.op = "set"
    /\ last.evicting
    /\ Removed \cap Live(last.pre, now) # {}
    /\ Expired(last.pre, now) # {}

GuardedOps == {"get", "set", "delete", "has", "size", "clear"}

C11_ShutState ==
    /\ isShutdown => store = <<>> /\ ~sweepTimer
    /\ isShutdown /\ last.op \in GuardedOps => last.threw
    /\ last.op = "shutdown" => ~last.threw /\ isShutdown

C11_ShutStep ==
    isShutdown => /\ isShutdown'
                  /\ store' = store
                  /\ sweepTimer' = sweepTimer
                  /\ options' = options

\* C11: once shutdown() has completed, every get, set, delete, has, size and
\* clear rejects and changes nothing (the map stays empty, the timer stays
\* stopped), and a further shutdown() completes without error or effect.
C11_ShutdownIsFinal == [](C11_ShutState) /\ [][C11_ShutStep]_vars

\* A set rejected after a shutdown.
C11_Witness ==
    /\ isShutdown
    /\ last.op = "set"
    /\ last.threw

-----------------------------------------------------------------------------
(* IEEE-754 double arithmetic                                               *)
(*                                                                          *)
(* A JavaScript number that is not negative is modelled as m * 2^e: m is a  *)
(* natural number written as a sequence of bits, lowest bit first, odd and  *)
(* at most MANTISSA_BITS long; zero is the empty sequence with e = 0. Every *)
(* operation computes the exact result and rounds it to nearest, ties to    *)
(* even, as the hardware does. The values met here stay far from the range  *)
(* limits of a double, so there is no overflow and no subnormal number.     *)

MANTISSA_BITS == 53

\* Extra quotient bits computed by a division before rounding.
DIV_EXTRA_BITS == MANTISSA_BITS + 11

\* b without its high zero bits.
Trim(b) ==
    IF \A i \in 1..Len(b) : b[i] = 0 THEN <<>>
    ELSE SubSeq(b, 1, CHOOSE i \in 1..Len(b) :
                          b[i] = 1 /\ \A j \in (i + 1)..Len(b) : b[j] = 0)

RECURSIVE BitsOf(_)
BitsOf(n) == IF n = 0 THEN <<>> ELSE <<n % 2>> \o BitsOf(n \div 2)

RECURSIVE NatOf(_)
NatOf(b) == IF b = <<>> THEN 0 ELSE b[1] + 2 * NatOf(Tail(b))

Bit(b, i) == IF i <= Len(b) THEN b[i] ELSE 0

Shl(b, n) == [i \in 1..n |-> 0] \o b

\* The bits lo..hi of a + b + carry, and the carry out of them. The range is
\* halved so that the evaluation stays shallow.
RECURSIVE AddRange(_, _, _, _, _)
AddRange(a, b, lo, hi, carry) ==
    IF lo > hi THEN [s |-> <<>>, c |-> carry]
    ELSE IF lo = hi
    THEN LET t == Bit(a, lo) + Bit(b, lo) + carry
         IN [s |-> <<t % 2>>, c |-> t \div 2]
    ELSE LET mid == (lo + hi) \div 2
             l == AddRange(a, b, lo, mid, carry)
             h == AddRange(a, b, mid + 1, hi, l.c)
         IN [s |-> l.s \o h.s, c |-> h.c]

AddBits(a, b, carry) ==
    LET r == AddRange(a, b, 1, Max(Len(a), Len(b)), carry)
    IN Trim(r.s \o <<r.c>>)

RECURSIVE SubRange(_, _, _, _, _)
SubRange(a, b, lo, hi, borrow) ==
    IF lo > hi THEN [s |-> <<>>, c |-> borrow]
    ELSE IF lo = hi
    THEN LET d == Bit(a, lo) - Bit(b, lo) - borrow
         IN [s |-> <<d % 2>>, c |-> IF d < 0 THEN 1 ELSE 0]
    ELSE LET mid == (lo + hi) \div 2
             l == SubRange(a, b, lo, mid, borrow)
             h == SubRange(a, b, mid + 1, hi, l.c)
         IN [s |-> l.s \o h.s, c |-> h.c]

\* a - b, for a >= b.
SubBits(a, b) == Trim(SubRange(a, b, 1, Len(a), 0).s)

\* -1, 0 or 1 as a < b, a = b or a > b; a and b have no high zero bits.
CmpBits(a, b) ==
    IF Len(a) # Len(b) THEN (IF Len(a) < Len(b) THEN -1 ELSE 1)
    ELSE IF a = b THEN 0
    ELSE LET i == CHOOSE i \in 1..Len(a) :
                      a[i] # b[i] /\ \A j \in (i + 1)..Len(a) : a[j] = b[j]
         IN IF a[i] < b[i] THEN -1 ELSE 1

RECURSIVE MulRange(_, _, _, _, _)
MulRange(b, k, lo, hi, carry) ==
    IF lo > hi THEN [s |-> <<>>, c |-> carry]
    ELSE IF lo = hi
    THEN LET t == b[lo] * k + carry
         IN [s |-> <<t % 2>>, c |-> t \div 2]
    ELSE LET mid == (lo + hi) \div 2
             l == MulRange(b, k, lo, mid, carry)
             h == MulRange(b, k, mid + 1, hi, l.c)
         IN [s |-> l.s \o h.s, c |-> h.c]

\* b * k for a small natural number k.
MulSmall(b, k) ==
    LET r == MulRange(b, k, 1, Len(b), 0) IN Trim(r.s \o BitsOf(r.c))

Reverse(b) == [i \in 1..Len(b) |-> b[Len(b) + 1 - i]]

\* Long division by k > 0 of the bits lo..hi of b, highest first, with rem
\* carried in from the bits above: the quotient bits, highest first, and the
\* remainder.
RECURSIVE DivRange(_, _, _, _, _)
DivRange(b, k, lo, hi, rem) ==
    IF lo > hi THEN [q |-> <<>>, r |-> rem]
    ELSE IF lo = hi
    THEN LET cur == 2 * rem + b[lo]
             bit == IF cur >= k THEN 1 ELSE 0
         IN [q |-> <<bit>>, r |-> cur - bit * k]
    ELSE LET mid == (lo + hi) \div 2
             h == DivRange(b, k, mid + 1, hi, rem)
             l == DivRange(b, k, lo, mid, h.r)
         IN [q |-> h.q \o l.q, r |-> l.r]

Zero == [m |-> <<>>, e |-> 0]

\* m * 2^e with m odd, or zero.
Norm(b, e) ==
    IF \A i \in 1..Len(b) : b[i] = 0 THEN Zero
    ELSE LET z == CHOOSE i \in 1..Len(b) :
                      b[i] = 1 /\ \A j \in 1..(i - 1) : b[j] = 0
         IN [m |-> Trim(SubSeq(b, z, Len(b))), e |-> e + z - 1]

\* b * 2^e, plus a nonzero amount below the lowest bit when sticky, rounded to
\* MANTISSA_BITS bits, to nearest and ties to even.
Round(b, e, sticky) ==
    IF Len(b) <= MANTISSA_BITS THEN Norm(b, e)
    ELSE LET d == Len(b) - MANTISSA_BITS
             keep == SubSeq(b, d + 1, Len(b))
             guard == b[d]
             below == sticky \/ \E i \in 1..(d - 1) : b[i] = 1
             up == guard = 1 /\ (below \/ keep[1] = 1)
         IN Norm(IF up THEN AddBits(keep, <<>>, 1) ELSE keep, e + d)

FromInt(n) == Norm(BitsOf(n), 0)

\* The bits of x in units of 2^e, for e <= x.e.
Aligned(x, e) == IF x.m = <<>> THEN <<>> ELSE Shl(x.m, x.e - e)

FCmp(x, y) ==
    LET e == Min(x.e, y.e) IN CmpBits(Aligned(x, e), Aligned(y, e))

FAdd(x, y) ==
    LET e == Min(x.e, y.e)
    IN Round(AddBits(Aligned(x, e), Aligned(y, e), 0), e, FALSE)

\* x - y for x >= y.
FSub(x, y) ==
    LET e == Min(x.e, y.e)
    IN Round(SubBits(Aligned(x, e), Aligned(y, e)), e, FALSE)

\* x * k for a natural number k.
FMul(x, k) == Round(MulSmall(x.m, k), x.e, FALSE)

\* x / k for a natural number k > 0.
FDiv(x, k) ==
    LET b == Shl(x.m, DIV_EXTRA_BITS)
        d == DivRange(b, k, 1, Len(b), 0)
    IN Round(Trim(Reverse(d.q)), x.e - DIV_EXTRA_BITS, d.r # 0)

FMin(x, y) == IF FCmp(x, y) <= 0 THEN x ELSE y

\* Math.ceil, for a result that fits a machine integer of the model.
FCeil(x) ==
    IF x.e >= 0 THEN NatOf(Shl(x.m, x.e))
    ELSE IF -x.e >= Len(x.m) THEN 1
    ELSE NatOf(SubSeq(x.m, 1 - x.e, Len(x.m))) + 1

-----------------------------------------------------------------------------
(* The token bucket in double arithmetic: tokens is a double, the times,    *)
(* the cost and the configuration are integers.                             *)

calculateRefillTokens_f64(elapsedMs, config) ==
    IF elapsedMs <= 0 \/ config.refillIntervalMs <= 0 THEN Zero
    ELSE FMul(FDiv(FromInt(elapsedMs), config.refillIntervalMs), config.refillTokens)

refillBucket_f64(state, config, currentTime) ==
    LET elapsedMs == currentTime - state.lastRefillTime IN
    IF elapsedMs <= 0 THEN state
    ELSE [state EXCEPT
            !.tokens = FMin(FromInt(config.capacity),
                            FAdd(state.tokens,
                                 calculateRefillTokens_f64(elapsedMs, config))),
            !.lastRefillTime = currentTime]

createBucket_f64(config, currentTime, ttlMs) ==
    [tokens |-> FromInt(config.capacity), lastRefillTime |-> currentTime,
     createdAt |-> currentTime, expiresAt |-> currentTime + ttlMs]

calculateRetryAfterMs_f64(tokensNeeded, config) ==
    IF FCmp(tokensNeeded, Zero) <= 0 THEN 0
    ELSE IF config.refillTokens <= 0 \/ config.refillIntervalMs <= 0
    THEN MAX_SAFE_INTEGER
    ELSE FCeil(FMul(FDiv(tokensNeeded, config.refillTokens),
                    config.refillIntervalMs))

consumeTokens_f64(state, config, cost, currentTime, ttlMs) ==
    LET refilledState == refillBucket_f64(state, config, currentTime) IN
    IF FCmp(refilledState.tokens, FromInt(cost)) >= 0
    THEN LET newState == [refilledState EXCEPT
                            !.tokens = FSub(refilledState.tokens, FromInt(cost)),
                            !.expiresAt = currentTime + ttlMs]
         IN [allowed |-> TRUE, remainingTokens |-> newState.tokens,
             retryAfterMs |-> 0, bucketState |-> newState]
    ELSE LET tokensNeeded == FSub(FromInt(cost), refilledState.tokens)
         IN [allowed |-> FALSE, remainingTokens |-> refilledState.tokens,
             retryAfterMs |-> calculateRetryAfterMs_f64(tokensNeeded, config),
             bucketState |-> [refilledState EXCEPT !.expiresAt = currentTime + ttlMs]]

calculateDefaultTtl_f64(rule) ==
    IF rule.ttlMs # <<>> THEN rule.ttlMs[1]
    ELSE FCeil(FMul(FMul(FDiv(FromInt(rule.capacity), rule.refillTokens),
                         rule.refillIntervalMs), 2))

-----------------------------------------------------------------------------
(* One caller checks one key of a single-rule policy again and again, each  *)
(* check awaited before the next, while time passes. The tokens are doubles. *)

MaxClock == 4
MaxBucketCapacity == 3
MaxIntervalMs == 3

RetryRules ==
    {[per_ip EXCEPT !.capacity = capacity, !.refillTokens = refillTokens,
                    !.refillIntervalMs = refillIntervalMs, !.cost = <<cost>>,
                    !.mode = <<"block">>, !.ttlMs = ttlMs] :
        capacity \in 1..MaxBucketCapacity, refillTokens \in 1..MaxRefillTokens,
        refillIntervalMs \in 1..MaxIntervalMs, cost \in 1..MaxBucketCapacity,
        ttlMs \in {<<>>, <<1>>}}

RetryPolicies ==
    {(test_action :> [id |-> test_action, rules |-> <<rule>>, failMode |-> "closed"]) :
        rule \in {r \in RetryRules : r.cost[1] <= r.capacity}}

\* pure.due holds the times t + retryAfterMs of the denials since the last
\* allowed check.
InitRetry ==
    /\ InitStore(<<>>)
    /\ policies \in RetryPolicies
    /\ calls = <<>>
    /\ pure = [fn |-> "due", due |-> {}]

\* check(SeqContext) from its call to its return: evaluateRule of the one rule.
CheckRetry ==
    LET rule == policies[test_action].rules[1]
        key == buildKey(test_action, rule, SeqContext)[1]
        config == ruleToConfig(rule)
        ttlMs == calculateDefaultTtl_f64(rule)
        cost == IF rule.cost = <<>> THEN 1 ELSE rule.cost[1]
        got == StoreGet(store, key, now)
        bucketState == IF got.value = <<>> \/ isBucketExpired(got.value[1], now)
                       THEN createBucket_f64(config, now, ttlMs)
                       ELSE got.value[1]
        consumeResult == consumeTokens_f64(bucketState, config, cost, now, ttlMs)
    IN /\ ~isShutdown
       /\ store' = StoreSet(got.store, options, key, consumeResult.bucketState, now)
       /\ last' = [NoCall EXCEPT
               !.op = "check", !.key = key,
               !.value = <<[allowed |-> consumeResult.allowed,
                            retryAfterMs |-> consumeResult.retryAfterMs,
                            due |-> now \in pure.due]>>]
       /\ pure' = [pure EXCEPT
               !.due = IF consumeResult.allowed THEN {}
                       ELSE @ \cup ({now + consumeResult.retryAfterMs} \cap 0..MaxClock)]
       /\ UNCHANGED <<options, sweepTimer, isShutdown, now, policies, calls>>

TickRetry ==
    /\ now < MaxClock
    /\ now' = now + 1
    /\ last' = NoCall
    /\ UNCHANGED <<store, options, sweepTimer, isShutdown, policies, calls, pure>>

NextRetry ==
    \/ CheckRetry
    \/ TickRetry
    \/ Sweep

SpecRetry == InitRetry /\ [][NextRetry]_vars

\* C12: a check denied at time t with retryAfterMs = r is followed, when only
\* denied checks of the key come in between, by an allowed check at t + r.
C12_RetryIsHonest ==
    last.op = "check" /\ last.value[1].due => last.value[1].allowed

-----------------------------------------------------------------------------
(* check() calls on a rule taken as it is given (nothing validates a rule:  *)
(* refillTokens of either sign), under a clock that can be set to any time. *)

\* The engine builds no default ttl here: with refillTokens <= 0 the default
\* is not a finite positive number.
AnyRules ==
    {[per_ip EXCEPT !.capacity = capacity, !.refillTokens = refillTokens,
                    !.refillIntervalMs = refillIntervalMs, !.cost = <<cost>>,
                    !.mode = <<"block">>, !.ttlMs = <<ttlMs>>] :
        capacity \in 0..MaxCapacity, refillTokens \in {-1, 0, 1},
        refillIntervalMs \in 1..MaxRefillIntervalMs, cost \in 0..MaxCost,
        ttlMs \in 0..MaxTtl}

AnyPolicies ==
    {(test_action :> [id |-> test_action, rules |-> <<rule>>, failMode |-> "closed"]) :
        rule \in AnyRules}

InitAnyClock ==
    /\ InitStore(<<>>)
    /\ policies \in AnyPolicies
    /\ calls = <<>>
    /\ pure = NoPure

\* The clock is set: forward, or back.
SetClock(t) ==
    /\ t # now
    /\ now' = t
    /\ last' = NoCall
    /\ UNCHANGED <<store, options, sweepTimer, isShutdown, policies, calls, pure>>

NextAnyClock ==
    \/ Check(SeqContext)
    \/ \E n \in 1..Len(calls) : Resume(n)
    \/ Sweep
    \/ \E t \in 0..MaxTime : SetClock(t)

SpecAnyClock == InitAnyClock /\ [][NextAnyClock]_vars

\* The rule whose buckets the store holds.
AnyRule == policies[test_action].rules[1]

\* C13: every stored bucket of a rule with capacity >= 0 and cost >= 0 holds
\* 0 <= tokens <= capacity.
C13_TokensInRange ==
    \A n \in 1..Len(store) :
        /\ store[n].state.tokens >= 0
        /\ store[n].state.tokens <= AnyRule.capacity * Scale(ruleToConfig(AnyRule))

\* C14: every bucket state written to the store has expiresAt >= createdAt.
C14_ExpiresAfterCreated ==
    \A n \in 1..Len(store) : store[n].state.expiresAt >= store[n].state.createdAt

-----------------------------------------------------------------------------
(* refillBucket *)

\* C15: for a state with 0 <= tokens <= capacity, a config with refillTokens
\* >= 0 and any time, refillBucket returns tokens that are >= the tokens it
\* was given and <= the capacity.
C15_RefillBounded ==
    pure.fn = "refillBucket" =>
        /\ pure.result.tokens >= pure.state.tokens
        /\ pure.result.tokens <= pure.config.capacity * Scale(pure.config)

\* A refill that would pass the capacity and is capped at it.
C15_Witness ==
    /\ pure.fn = "refillBucket"
    /\ pure.result.tokens > pure.state.tokens
    /\ pure.result.tokens = pure.config.capacity * Scale(pure.config)
    /\ pure.state.tokens
         + calculateRefillTokens(pure.currentTime - pure.state.lastRefillTime, pure.config)
           > pure.config.capacity * Scale(pure.config)

-----------------------------------------------------------------------------
(* Challenge mode, retry times and the per-rule results of a decision *)

ModeOf(rule) == IF rule.mode = <<>> THEN "block" ELSE rule.mode[1]

\* The calls that found a policy and returned without a store error.
Evaluated(call) == Done(call) /\ call.policy # <<>> /\ ~FailedDueToError(call)

\* The rules of the call's policy, by place, whose bucket lacked the cost.
DeniedRules(call) ==
    {i \in 1..Len(call.decision[1].ruleResults) :
        call.decision[1].ruleResults[i].outcome # "ALLOWED"}

DeniedIn(call, mode) ==
    {i \in DeniedRules(call) : ModeOf(call.policy[1].rules[i]) = mode}

C16_State ==
    \A n \in 1..Len(calls) :
        /\ Evaluated(calls[n]) =>
              LET d == calls[n].decision[1] IN
              /\ ~d.allowed => DeniedIn(calls[n], "block") # {}
              /\ DeniedIn(calls[n], "challenge") # {} /\ DeniedIn(calls[n], "block") = {} =>
                    /\ d.outcome = "CHALLENGE"
                    /\ d.allowed
                    /\ d.challenge = <<captcha_required>>
        /\ FailedDueToError(calls[n]) /\ ~calls[n].decision[1].allowed =>
              calls[n].policy[1].failMode = "closed"

\* The bucket a suspended evaluateRule goes on with: the one store.get gave
\* it, or a new one.
BucketOf(call) ==
    LET rule == call.policy[1].rules[call.i] IN
    IF call.got = <<>> \/ isBucketExpired(call.got[1], call.t)
    THEN createBucket(ruleToConfig(rule), call.t, calculateDefaultTtl(rule))
    ELSE call.got[1]

C16_Step ==
    \A n \in 1..Len(calls) :
        /\ calls[n].pc = "awaitGet"
        /\ calls'[n].pc = "awaitSet"
        /\ calls'[n].res[1].outcome = "CHALLENGE"
        => LET written == MapGet(store', calls[n].key)[1].state IN
           /\ written.tokens >= BucketOf(calls[n]).tokens
           /\ written.tokens = calls'[n].res[1].remainingTokens

\* C16: check() returns allowed = FALSE only when a block-mode rule's bucket
\* lacks the cost, or on a store error under failMode closed; when only
\* challenge-mode rules are denied the decision is CHALLENGE, allowed, with
\* challenge 'captcha_required'; a denied challenge consumes no tokens.
C16_ChallengeNeverBlocks == [](C16_State) /\ [][C16_Step]_vars

\* A decision in which the challenge-mode rule alone was denied.
C16_Witness ==
    \E n \in 1..Len(calls) :
        /\ Evaluated(calls[n])
        /\ DeniedIn(calls[n], "challenge") # {}
        /\ DeniedIn(calls[n], "block") = {}
        /\ calls[n].decision[1].outcome = "CHALLENGE"

\* C17: the rule result of a denied challenge-mode rule has outcome CHALLENGE
\* and allowed = TRUE.
C17_ChallengeResultAllowed ==
    \A n \in 1..Len(calls) :
        Evaluated(calls[n]) =>
            \A i \in DeniedIn(calls[n], "challenge") :
                /\ calls[n].decision[1].ruleResults[i].outcome = "CHALLENGE"
                /\ calls[n].decision[1].ruleResults[i].allowed

\* C18: the decision's retryAfterMs is the greatest retryAfterMs of the rules
\* whose bucket denied the request, challenge-mode rules included.
C18_RetryOverDenied ==
    \A n \in 1..Len(calls) :
        Evaluated(calls[n]) /\ DeniedRules(calls[n]) # {} =>
            calls[n].decision[1].retryAfterMs =
                MaxOf({calls[n].decision[1].ruleResults[i].retryAfterMs :
                          i \in DeniedRules(calls[n])})

\* The store calls a check() without store error issues for its rule results
\* from place i on: a get and a set for each rule that has a key.
RECURSIVE ExpectedOps(_, _)
ExpectedOps(ruleResults, i) ==
    IF i > Len(ruleResults) THEN <<>>
    ELSE (IF ruleResults[i].key = skipped THEN <<>>
          ELSE <<[rule |-> i, op |-> "get", threw |-> FALSE],
                 [rule |-> i, op |-> "set", threw |-> FALSE]>>)
         \o ExpectedOps(ruleResults, i + 1)

C19_State ==
    \A n \in 1..Len(calls) :
        Evaluated(calls[n]) =>
            LET d == calls[n].decision[1]
                rules == calls[n].policy[1].rules
            IN /\ Len(d.ruleResults) = Len(rules)
               /\ \A i \in 1..Len(rules) : d.ruleResults[i].ruleName = rules[i].name
               /\ calls[n].ops = ExpectedOps(d.ruleResults, 1)

\* An allowed consume is written to the store, whatever the earlier rules gave.
C19_Step ==
    \A n \in 1..Len(calls) :
        /\ calls[n].pc = "awaitGet"
        /\ calls'[n].pc = "awaitSet"
        /\ calls'[n].res[1].allowed
        => LET rule == calls[n].policy[1].rules[calls[n].i]
               config == ruleToConfig(rule)
               written == MapGet(store', calls[n].key)[1].state
           IN written.tokens =
                  refillBucket(BucketOf(calls[n]), config, calls[n].t).tokens
                    - CostOf(rule) * Scale(config)

-----------------------------------------------------------------------------
(* check() calls against a store whose get and set can throw: the engine    *)
(* is handed any RateLimitStore. A call that throws leaves the map as it is. *)

\* check(context) whose first store.get throws.
CheckStoreThrows(context) ==
    /\ Len(calls) < MaxCalls
    /\ LET r == StartCheck(context, policies, store, TRUE, now) IN
       /\ calls' = Append(calls, r.call)
       /\ store' = r.store
    /\ UNCHANGED <<options, sweepTimer, isShutdown, now, last, policies, pure>>

\* A suspended call resumes and the store call it makes next throws.
ResumeStoreThrows(n) ==
    /\ Suspended(calls[n])
    /\ LET r == ResumeCall(calls[n], store, options, TRUE, now) IN
       /\ calls' = [calls EXCEPT ![n] = r.call]
       /\ store' = r.store
    /\ UNCHANGED <<options, sweepTimer, isShutdown, now, last, policies, pure>>

NextFaulty ==
    \/ \E context \in Contexts : Check(context)
    \/ \E context \in Contexts : CheckStoreThrows(context)
    \/ \E n \in 1..Len(calls) : Resume(n)
    \/ \E n \in 1..Len(calls) : ResumeStoreThrows(n)
    \/ Sweep
    \/ Tick

SpecFaulty == InitEngine /\ [][NextFaulty]_vars

\* The store calls of a failed check(): the last one threw, for rule k; the
\* ones before it succeeded and were for rules up to k.
C20_State ==
    \A n \in 1..Len(calls) :
        FailedDueToError(calls[n]) =>
            LET ops == calls[n].ops
                k == ops[Len(ops)].rule
            IN /\ ops[Len(ops)].threw
               /\ \A j \in 1..(Len(ops) - 1) : ~ops[j].threw /\ ops[j].rule <= k
               /\ ExpectedOps(calls[n].ruleResults, 1)
                     \o (IF ops[Len(ops)].op = "set"
                         THEN <<[rule |-> k, op |-> "get", threw |-> FALSE]>> ELSE <<>>)
                     \o <<ops[Len(ops)]>> = ops
               /\ Len(calls[n].ruleResults) = k - 1

\* The failing step changes no bucket, and a call that has returned makes no
\* further store call.
C20_Step ==
    \A n \in 1..Len(calls) :
        /\ ~Done(calls[n]) /\ FailedDueToError(calls'[n]) => store' = store
        /\ Done(calls[n]) => calls'[n] = calls[n]

\* C20: when a store call throws during the k-th rule, no later rule is
\* evaluated, what was written for the rules before k stays in the store, and
\* the k-th rule's bucket is unchanged when the failing call is its get.
C20_ErrorStopsEvaluation == [](C20_State) /\ [][C20_Step]_vars

\* A check that wrote the first rule's bucket and failed in the second rule,
\* the first rule's bucket still in the store.
C20_Witness ==
    \E n \in 1..Len(calls) :
        /\ FailedDueToError(calls[n])
        /\ calls[n].ops[Len(calls[n].ops)].rule = 2
        /\ calls[n].ops[1] = [rule |-> 1, op |-> "get", threw |-> FALSE]
        /\ MapHas(store, calls[n].ruleResults[1].key)

-----------------------------------------------------------------------------
(* check() for actions that no policy is configured for *)

constructor == <<"c", "o", "n", "s", "t", "r", "u", "c", "t", "o", "r">>

toString == <<"t", "o", "S", "t", "r", "i", "n", "g">>

\* Contexts of actions the policies object holds no policy for, and one of
\* the configured action, whose checks fill the store.
LookupContexts ==
    {(action_tag :> unknown_action) @@ (ip :> <<"1">>),
     (action_tag :> unknown_action) @@ (ip :> <<"1">>) @@ (emailHash :> <<"x">>),
     (action_tag :> constructor) @@ (ip :> <<"1">>),
     (action_tag :> toString),
     (action_tag :> test_action) @@ (ip :> <<"1">>) @@ (emailHash :> <<"x">>)}

NextLookup ==
    \/ \E context \in LookupContexts : Check(context)
    \/ \E n \in 1..Len(calls) : Resume(n)
    \/ Shutdown
    \/ Sweep
    \/ Tick

SpecLookup == InitEngine /\ [][NextLookup]_vars

NoPolicy(call) == call.context[action_tag] \notin DOMAIN policies

C21_State ==
    \A n \in 1..Len(calls) :
        NoPolicy(calls[n]) =>
            /\ Done(calls[n])
            /\ calls[n].decision[1].allowed
            /\ calls[n].decision[1].outcome = "ALLOWED"
            /\ calls[n].decision[1].retryAfterMs = 0
            /\ calls[n].decision[1].ruleResults = <<>>
            /\ calls[n].decision[1].keys = <<>>
            /\ calls[n].ops = <<>>

C21_Step ==
    (Len(calls') > Len(calls) /\ NoPolicy(calls'[Len(calls')])) => store' = store

\* C21: a check() of a context whose action has no policy returns {allowed,
\* ALLOWED, retryAfterMs 0, no rule results, no keys}, issues no store call
\* and leaves the map as it is.
C21_NoPolicyAllows == [](C21_State) /\ [][C21_Step]_vars

-----------------------------------------------------------------------------
(* Sequential checks of one key while time passes, with a caller that also  *)
(* asks the store for the key                                               *)

\* The key of the single rule's bucket.
WindowKey == buildKey(test_action, SeqRule, SeqContext)[1]

NextWindow ==
    \/ CheckNext
    \/ \E n \in 1..Len(calls) : Resume(n)
    \/ Get(WindowKey)
    \/ Has(WindowKey)
    \/ Sweep
    \/ Tick

SpecWindow == InitSeq /\ [][NextWindow]_vars

\* The calls whose store.set has been made.
Written(cs) == {n \in 1..Len(cs) : \E o \in Range(cs[n].ops) : o.op = "set" /\ ~o.threw}

\* The expiry the latest check of the key gave it: its clock reading + ttlMs.
ExpiryOfLastCheck == calls[MaxOf(Written(calls))].t + calculateDefaultTtl(SeqRule)

\* While the latest check's ttl window is open the key is held, with that
\* check's expiry.
C22_State ==
    (Written(calls) # {} /\ now < ExpiryOfLastCheck) =>
        /\ MapHas(store, WindowKey)
        /\ MapGet(store, WindowKey)[1].state.expiresAt = ExpiryOfLastCheck

\* The step in which a check writes the key stores its clock reading + ttlMs.
C22_Step ==
    Written(calls') # Written(calls) =>
        LET n == CHOOSE k \in Written(calls') : k \notin Written(calls) IN
        /\ MapHas(store', WindowKey)
        /\ MapGet(store', WindowKey)[1].state.expiresAt =
               calls'[n].t + calculateDefaultTtl(SeqRule)

\* C22: every check that evaluates the rule against a key, allowed or denied,
\* stores expiresAt = now + ttlMs for the key; a key checked again before each
\* window of ttlMs ends is not removed by get, has or the sweep, also when
\* every such check is denied.
C22_ExpiryFollowsChecks == [](C22_State) /\ [][C22_Step]_vars

\* Two denied checks, at clock 0 and at clock 1, of a rule with ttlMs 2; the
\* sweep has run at clock 2, past the first check's expiry, and the key is
\* still held.
C22_Witness ==
    /\ Len(calls) >= 2
    /\ \A n \in 1..2 : Done(calls[n]) /\ ~calls[n].decision[1].allowed
                        /\ calls[n].t = n - 1 /\ n \in Written(calls)
    /\ calculateDefaultTtl(SeqRule) = 2
    /\ now = 2
    /\ last.op = "sweep"
    /\ MapHas(store, WindowKey)

-----------------------------------------------------------------------------
(* Consumes on one bucket, one after another, at clock readings in any order *)

InitChain ==
    /\ InitStore(<<>>)
    /\ policies = <<>>
    /\ calls = <<>>
    /\ \E config \in RefillConfigs : \E state \in BucketStates(config) :
           pure = [fn |-> "chain", config |-> config, n |-> 0,
                   before |-> state, refilled |-> state, state |-> state,
                   currentTime |-> <<>>, previousTime |-> <<>>]

\* consumeTokens on the bucket state the previous consume returned; refilled
\* is what its refillBucket gave.
ConsumeNext ==
    /\ pure.n < MaxChain
    /\ \E cost \in 0..MaxCost, currentTime \in 0..MaxTime, ttlMs \in 0..MaxTtl :
           pure' = [pure EXCEPT
               !.n = @ + 1,
               !.before = pure.state,
               !.refilled = refillBucket(pure.state, pure.config, currentTime),
               !.state = consumeTokens(pure.state, pure.config, cost,
                                       currentTime, ttlMs).bucketState,
               !.currentTime = <<currentTime>>,
               !.previousTime = pure.currentTime]
    /\ UNCHANGED <<store, options, sweepTimer, isShutdown, now, last, policies, calls>>

NextChain == ConsumeNext

SpecChain == InitChain /\ [][NextChain]_vars

\* C23: refillBucket with now <= lastRefillTime returns the state unchanged;
\* over consumes on one bucket at clock readings in any order lastRefillTime
\* never decreases, and a reading below the one before adds no tokens.
C23_ClockRegressionGuard ==
    pure.n > 0 =>
        /\ pure.currentTime[1] <= pure.before.lastRefillTime
               => pure.refilled = pure.before
        /\ pure.state.lastRefillTime >= pure.before.lastRefillTime
        /\ (pure.previousTime # <<>> /\ pure.currentTime[1] < pure.previousTime[1])
               => /\ pure.refilled.tokens = pure.before.tokens
                  /\ pure.state.tokens <= pure.before.tokens

\* A bucket below its capacity with lastRefillTime 2 and a refilling config,
\* consumed at clock 0 and then at clock 1: the refill at clock 1 changed
\* nothing.
C23_Witness ==
    /\ pure.n = MaxChain
    /\ pure.previousTime = <<0>>
    /\ pure.currentTime = <<1>>
    /\ pure.before.lastRefillTime = 2
    /\ pure.config.refillTokens > 0
    /\ pure.config.refillIntervalMs > 0
    /\ pure.before.tokens < pure.config.capacity * Scale(pure.config)
    /\ pure.refilled = pure.before

-----------------------------------------------------------------------------
(* MemoryStore: the periodic sweep *)

\* C24: a run of the sweep deletes every entry whose expiresAt <= now and no
\* entry whose expiresAt > now; a sweep that runs on a store that has been
\* shut down changes nothing.
C24_SweepDeletesExpired ==
    last.op = "sweep" =>
        IF isShutdown THEN store = last.pre
        ELSE /\ \A e \in Entries(last.pre) :
                    e.state.expiresAt <= now => ~MapHas(store, e.key)
             /\ \A e \in Entries(last.pre) :
                    e.state.expiresAt > now => e \in Entries(store)
             /\ Entries(store) \subseteq Entries(last.pre)

\* A sweep that found an entry expiring at this very clock reading and one
\* that expires later: it deleted the first and kept the second.
C24_Witness ==
    /\ last.op = "sweep"
    /\ ~isShutdown
    /\ \E e \in Entries(last.pre) : e.state.expiresAt = now /\ ~MapHas(store, e.key)
    /\ \E e \in Entries(last.pre) : e.state.expiresAt > now /\ e \in Entries(store)

-----------------------------------------------------------------------------
(* A MemoryStore constructed with a highWaterMark and no evictionCount *)

InitDefaults ==
    /\ \E highWaterMark \in 1..MaxHighWaterMark :
           InitStore("highWaterMark" :> highWaterMark)
    /\ policies = <<>>
    /\ calls = <<>>
    /\ pure = NoPure

SpecDefaults == InitDefaults /\ [][Next]_vars

\* C25: with a highWaterMark given and no evictionCount, the evictionCount in
\* effect is a tenth of the highWaterMark, and an evicting set leaves, before
\* its insert, nine tenths of the highWaterMark (to the nearest entry) when
\* the map held that many.
C25_DefaultEvictionCount ==
    (last.op = "set" /\ last.evicting) =>
        /\ 10 * options.evictionCount = options.highWaterMark
        /\ 10 * (Len(store) - 1) > 9 * options.highWaterMark - 10

-----------------------------------------------------------------------------
(* Key builder: parseKey on the keys buildKey returns *)

\* key.split(KEY_SEPARATOR): the parts between separators, empty ones kept.
RECURSIVE Split(_, _)
Split(s, sep) ==
    IF \A i \in 1..Len(s) : s[i] # sep THEN <<s>>
    ELSE LET i == CHOOSE k \in 1..Len(s) :
                      s[k] = sep /\ \A j \in 1..(k - 1) : s[j] # sep
         IN <<SubSeq(s, 1, i - 1)>> \o Split(SubSeq(s, i + 1, Len(s)), sep)

\* part.indexOf(VALUE_SEPARATOR), counted from 1; 0 when there is none.
IndexOf(s, c) ==
    IF \A i \in 1..Len(s) : s[i] # c THEN 0
    ELSE CHOOSE k \in 1..Len(s) : s[k] = c /\ \A j \in 1..(k - 1) : s[j] # c

\* The loop of parseKey over parts[2..n] (from 0): a later part's assignment
\* to dimensions replaces an earlier one of the same name.
RECURSIVE ParsedDimensions(_, _)
ParsedDimensions(parts, n) ==
    IF n < 3 THEN <<>>
    ELSE LET before == ParsedDimensions(parts, n - 1)
             part == parts[n]
             eqIndex == IndexOf(part, VALUE_SEPARATOR)
             dimName == SubSeq(part, 1, eqIndex - 1)
             dimValue == SubSeq(part, eqIndex + 1, Len(part))
         IN IF part = <<>> \/ eqIndex = 0 \/ dimName = <<>> THEN before
            ELSE (dimName :> dimValue) @@ before

\* parseKey: the components, or nothing (null).
parseKey(key) ==
    LET parts == Split(key, KEY_SEPARATOR) IN
    IF Len(parts) < 2 THEN <<>>
    ELSE IF parts[1] = <<>> \/ parts[2] = <<>> THEN <<>>
    ELSE <<[action |-> parts[1], ruleName |-> parts[2],
            dimensions |-> ParsedDimensions(parts, Len(parts))]>>

\* Action ids and rule names: plain ones and namespaced ones.
KeyActions == {<<"t">>, <<"t", ":", "u">>}

KeyRuleNames == {<<"r">>, <<"r", ":", "s">>}

\* The dimension lists a rule declares.
KeyDimensionLists == {<<>>, <<ip>>, <<emailHash>>, <<ip, emailHash>>, <<emailHash, ip>>}

\* Dimension values: empty, plain, and with the separator characters, as in
\* an IPv6 address.
KeyValues == {<<>>, <<"1">>, <<":">>, <<"=">>, <<"1", ":">>, <<"=", "1">>, <<":", "=">>}

KeyContexts ==
    {(action_tag :> a) @@ c :
        a \in KeyActions,
        c \in UNION {[D -> KeyValues] : D \in SUBSET {ip, emailHash}}}

InitKey ==
    /\ InitStore(<<>>)
    /\ policies = <<>>
    /\ calls = <<>>
    /\ \E context \in KeyContexts, name \in KeyRuleNames, dimensions \in KeyDimensionLists :
           pure = [fn |-> "input", action |-> context[action_tag],
                   rule |-> [name |-> name, key |-> dimensions],
                   context |-> context, key |-> <<>>, parsed |-> <<>>]

ApplyBuildKey ==
    /\ pure.fn = "input"
    /\ pure' = [pure EXCEPT !.fn = "buildKey",
                            !.key = buildKey(pure.action, pure.rule, pure.context)]
    /\ UNCHANGED <<store, options, sweepTimer, isShutdown, now, last, policies, calls>>

ApplyParseKey ==
    /\ pure.fn = "buildKey"
    /\ pure.key # <<>>
    /\ pure' = [pure EXCEPT !.fn = "parseKey", !.parsed = parseKey(pure.key[1])]
    /\ UNCHANGED <<store, options, sweepTimer, isShutdown, now, last, policies, calls>>

NextKey == ApplyBuildKey \/ ApplyParseKey

SpecKey == InitKey /\ [][NextKey]_vars

\* What the claim has parseKey return for the key of an action, rule and
\* context.
KeyComponents(action, rule, context) ==
    <<[action |-> action, ruleName |-> rule.name,
       dimensions |-> [d \in Range(rule.key) |-> sanitizeValue(context[d])]]>>

\* C26: for every action, rule and context that buildKey returns a key for,
\* parseKey of the key returns the action, the rule name and each declared
\* dimension mapped to its sanitized value.
C26_ParseInvertsBuild ==
    pure.fn = "parseKey" =>
        pure.parsed = KeyComponents(pure.action, pure.rule, pure.context)

-----------------------------------------------------------------------------
(* calculateRetryAfterMs at two amounts of tokens needed, under one config: *)
(* in exact arithmetic for amounts of either sign, and in doubles for the   *)
(* amounts a / b that a division rounds                                     *)

\* The configs calculateRetryAfterMs is handed: refillTokens and
\* refillIntervalMs zero and negative too.
RetryConfigs ==
    [capacity : {MaxCapacity},
     refillTokens : -1..MaxRefillTokens,
     refillIntervalMs : -1..MaxRefillIntervalMs]

\* The amounts in doubles: a / b, rounded.
NeededDoubles == {FDiv(FromInt(a), b) : a \in 0..MaxNeeded, b \in {1, MaxIntervalMs}}

\* tokensNeeded and otherNeeded are scaled by Scale(config).
ApplyCalculateRetryAfterMs ==
    /\ pure = NoPure
    /\ \E config \in RetryConfigs :
       \E tokensNeeded \in -MaxNeeded..MaxNeeded, otherNeeded \in -MaxNeeded..MaxNeeded :
           pure' = [fn |-> "calculateRetryAfterMs", config |-> config,
                    tokensNeeded |-> tokensNeeded, otherNeeded |-> otherNeeded,
                    result |-> calculateRetryAfterMs(tokensNeeded, config),
                    otherResult |-> calculateRetryAfterMs(otherNeeded, config)]
    /\ UNCHANGED <<store, options, sweepTimer, isShutdown, now, last, policies, calls>>

ApplyCalculateRetryAfterMs_f64 ==
    /\ pure = NoPure
    /\ \E refillTokens \in 1..MaxRefillTokens, refillIntervalMs \in 1..MaxIntervalMs :
       \E tokensNeeded \in NeededDoubles, otherNeeded \in NeededDoubles :
           LET config == [capacity |-> MaxCapacity, refillTokens |-> refillTokens,
                          refillIntervalMs |-> refillIntervalMs]
           IN pure' = [fn |-> "calculateRetryAfterMs_f64", config |-> config,
                       tokensNeeded |-> tokensNeeded, otherNeeded |-> otherNeeded,
                       result |-> calculateRetryAfterMs_f64(tokensNeeded, config),
                       otherResult |-> calculateRetryAfterMs_f64(otherNeeded, config)]
    /\ UNCHANGED <<store, options, sweepTimer, isShutdown, now, last, policies, calls>>

NextRetryFn == ApplyCalculateRetryAfterMs \/ ApplyCalculateRetryAfterMs_f64

SpecRetryFn == InitPure /\ [][NextRetryFn]_vars

Refills(config) == config.refillTokens > 0 /\ config.refillIntervalMs > 0

\* C27: under a config with refillTokens > 0 and refillIntervalMs > 0,
\* calculateRetryAfterMs is >= 0, is 0 for tokensNeeded <= 0 and does not
\* decrease as tokensNeeded grows; when refillTokens <= 0 or refillIntervalMs
\* <= 0 and tokensNeeded > 0 it is Number.MAX_SAFE_INTEGER.
C27_RetryMonotone ==
    /\ pure.fn = "calculateRetryAfterMs" =>
          /\ pure.result >= 0
          /\ pure.tokensNeeded <= 0 => pure.result = 0
          /\ (Refills(pure.config) /\ pure.tokensNeeded <= pure.otherNeeded)
                 => pure.result <= pure.otherResult
          /\ (~Refills(pure.config) /\ pure.tokensNeeded > 0)
                 => pure.result = MAX_SAFE_INTEGER
    /\ pure.fn = "calculateRetryAfterMs_f64" =>
          /\ pure.result >= 0
          /\ FCmp(pure.tokensNeeded, Zero) <= 0 => pure.result = 0
          /\ FCmp(pure.tokensNeeded, pure.otherNeeded) <= 0
                 => pure.result <= pure.otherResult

\* Two amounts that are not whole tokens, the larger with the later retry
\* time, in doubles.
C27_Witness ==
    /\ pure.fn = "calculateRetryAfterMs_f64"
    /\ pure.tokensNeeded.e < 0
    /\ pure.otherNeeded.e < 0
    /\ FCmp(pure.tokensNeeded, pure.otherNeeded) < 0
    /\ 0 < pure.result
    /\ pure.result < pure.otherResult

-----------------------------------------------------------------------------
(* combineRuleResults on the reorderings of a list *)

\* The reorderings of a list of rule results.
Reorderings(ruleResults) ==
    {[i \in 1..Len(ruleResults) |-> ruleResults[p[i]]] :
        p \in {q \in [1..Len(ruleResults) -> 1..Len(ruleResults)] :
                  \A i, j \in 1..Len(ruleResults) : q[i] = q[j] => i = j}}

\* C28: combineRuleResults returns the same allowed, outcome and retryAfterMs
\* for a list of rule results and for every reordering of it.
C28_OrderIndependent ==
    pure.fn = "combineRuleResults" =>
        \A reordered \in Reorderings(pure.ruleResults) :
            LET other == combineRuleResults(<<"a">>, reordered, <<>>) IN
            /\ other.allowed = pure.result.allowed
            /\ other.outcome = pure.result.outcome
            /\ other.retryAfterMs = pure.result.retryAfterMs

\* Three results, two blocked ones of which the first has the longer retry
\* time, then a challenge: six reorderings, and the decision carries the
\* longer retry time.
C28_Witness ==
    /\ pure.fn = "combineRuleResults"
    /\ Len(pure.ruleResults) = 3
    /\ pure.ruleResults[1].outcome = "BLOCKED"
    /\ pure.ruleResults[2].outcome = "BLOCKED"
    /\ pure.ruleResults[1].retryAfterMs > pure.ruleResults[2].retryAfterMs
    /\ pure.ruleResults[3].outcome = "CHALLENGE"
    /\ Cardinality(Reorderings(pure.ruleResults)) = 6
    /\ pure.result.retryAfterMs = pure.ruleResults[1].retryAfterMs

-----------------------------------------------------------------------------
(* The default password_reset_request policy (index.ts): requests of one ip  *)
(* for one email, one after another, within a minute                        *)

TIME_SECOND == 1000

TIME_MINUTE == 60 * TIME_SECOND

password_reset_request ==
    <<"p", "a", "s", "s", "w", "o", "r", "d", "_", "r", "e", "s", "e", "t", "_", "r", "e", "q", "u", "e", "s", "t">>

passwordResetPerIp ==
    [name |-> <<"p", "e", "r", "_", "i", "p">>, key |-> <<ip>>,
     capacity |-> 5, refillTokens |-> 5, refillIntervalMs |-> TIME_MINUTE,
     cost |-> <<1>>, mode |-> <<"block">>, ttlMs |-> <<TIME_MINUTE * 2>>]

passwordResetPerEmail ==
    [name |-> <<"p", "e", "r", "_", "e", "m", "a", "i", "l">>, key |-> <<emailHash>>,
     capacity |-> 3, refillTokens |-> 3, refillIntervalMs |-> TIME_MINUTE * 15,
     cost |-> <<1>>, mode |-> <<"block">>, ttlMs |-> <<TIME_MINUTE * 30>>]

passwordResetRequestPolicy ==
    [id |-> password_reset_request,
     rules |-> <<passwordResetPerIp, passwordResetPerEmail>>,
     failMode |-> "closed"]

\* One client's request: its ip and the hash of the email it asks for.
ResetContext ==
    (action_tag :> password_reset_request) @@ (ip :> <<"1">>) @@ (emailHash :> <<"x">>)

\* The clock readings at which the requests of the minute arrive.
ResetReadings == {0, 1, 12 * TIME_SECOND, 30 * TIME_SECOND, TIME_MINUTE - 1}

InitReset ==
    /\ InitStore(<<>>)
    /\ policies = (password_reset_request :> passwordResetRequestPolicy)
    /\ calls = <<>>
    /\ pure = NoPure

\* The next request of the series: the one before has been answered.
CheckReset ==
    /\ Len(calls) < MaxResetCalls
    /\ \A n \in 1..Len(calls) : calls[n].pc = "done"
    /\ LET r == StartCheck(ResetContext, policies, store, isShutdown, now) IN
       /\ calls' = Append(calls, r.call)
       /\ store' = r.store
    /\ UNCHANGED <<options, sweepTimer, isShutdown, now, last, policies, pure>>

\* Time passes, up to a later reading of the minute.
AdvanceReset ==
    /\ \E t \in ResetReadings :
           /\ t > now
           /\ now' = t
    /\ last' = NoCall
    /\ UNCHANGED <<store, options, sweepTimer, isShutdown, policies, calls, pure>>

NextReset ==
    \/ CheckReset
    \/ \E n \in 1..Len(calls) : Resume(n)
    \/ Sweep
    \/ AdvanceReset

SpecReset == InitReset /\ [][NextReset]_vars

PerEmailResult(decision) == decision.ruleResults[2]

-----------------------------------------------------------------------------
(* Express middleware (middleware/express.ts): createRateLimiter.forAction.   *)
(* Each request runs asyncHandler: it builds the context with the caller's   *)
(* extractors, awaits engine.check, runs the metrics, the onDecision hook    *)
(* and the logger, and answers. Under this specification `pure` holds the    *)
(* requests handled so far, each with its position and what was done to its  *)
(* response.                                                               *)

MaxRequests == 2

DecimalDigits == <<"0", "1", "2", "3", "4", "5", "6", "7", "8", "9">>

\* Number.prototype.toString of a non-negative integer.
RECURSIVE toDecimalString(_)
toDecimalString(n) ==
    IF n < 10 THEN <<DecimalDigits[n + 1]>>
    ELSE Append(toDecimalString(n \div 10), DecimalDigits[(n % 10) + 1])

\* Math.ceil(ms / 1000) of a non-negative integer.
msToSeconds(ms) == (ms + 999) \div 1000

required == <<"r", "e", "q", "u", "i", "r", "e", "d">>

\* A response nothing was done to: next() not called, no status, no header.
\* nextCalls lists the argument lists next was called with.
NoResponse == [nextCalls |-> <<>>, status |-> <<>>, headers |-> <<>>, body |-> <<>>]

setHeader(res, name, value) ==
    [res EXCEPT !.headers = Append(@, <<name, value>>)]

\* A handler that answers 429 to every decision that is not ALLOWED.
sendDecision_BlockChallenge(res, action, decision) ==
    IF decision.outcome # "ALLOWED"
    THEN [setHeader(res, "Retry-After",
                    toDecimalString(msToSeconds(decision.retryAfterMs)))
             EXCEPT !.status = <<429>>,
                    !.body = <<[error |-> "RATE_LIMITED", action |-> action,
                                retryAfterMs |-> decision.retryAfterMs,
                                outcome |-> decision.outcome,
                                challenge |-> decision.challenge]>>]
    ELSE [res EXCEPT !.nextCalls = Append(@, <<>>)]

\* The end of the try block: the answer to a decision.
sendDecision(res, action, decision) ==
    IF ~decision.allowed
    THEN [setHeader(res, "Retry-After",
                    toDecimalString(msToSeconds(decision.retryAfterMs)))
             EXCEPT !.status = <<429>>,
                    !.body = <<[error |-> "RATE_LIMITED", action |-> action,
                                retryAfterMs |-> decision.retryAfterMs,
                                outcome |-> decision.outcome,
                                challenge |-> decision.challenge]>>]
    ELSE LET hinted == IF decision.outcome = "CHALLENGE"
                       THEN setHeader(res, "X-RateLimit-Challenge",
                                      IF decision.challenge = <<>> THEN required
                                      ELSE decision.challenge[1])
                       ELSE res
         IN [hinted EXCEPT !.nextCalls = Append(@, <<>>)]

\* engine.getPolicy(action)?.failMode ?? 'closed'
failModeOf(pols, action) ==
    IF PolicyLookup(pols, action) = "own" THEN pols[action].failMode ELSE "closed"

\* The catch block: something in the try block threw. With logThrew the
\* logger throws again on logger.error, the handler's promise rejects and the
\* wrapper's .catch(next) passes the error to next.
failOnError(res, pols, action, logThrew) ==
    IF logThrew THEN [res EXCEPT !.nextCalls = Append(@, <<"error">>)]
    ELSE IF failModeOf(pols, action) = "open"
    THEN [res EXCEPT !.nextCalls = Append(@, <<>>)]
    ELSE [setHeader(res, "Retry-After", <<"6", "0">>)
             EXCEPT !.status = <<429>>,
                    !.body = <<[error |-> "RATE_LIMITED", action |-> action,
                                retryAfterMs |-> 60000, outcome |-> "BLOCKED",
                                challenge |-> <<>>]>>]

\* Where a request can throw: nowhere, in the try block (skip, an extractor,
\* the metrics, onDecision, the logger), or there and again in the catch block.
Faults == {"none", "try", "catch"}

InitMiddleware ==
    /\ InitStore(<<>>)
    /\ policies \in EnginePolicies
    /\ calls = <<>>
    /\ pure = [fn |-> "forAction", requests |-> <<>>]

\* A request arrives and skip does not take it: the handler runs to its await
\* of engine.check, or to its end when an extractor throws before that. The
\* context is what buildRequestContext makes of the request: the ip of the
\* X-Forwarded-For header (possibly empty) or of the socket (possibly
\* undefined), the email hash if getEmail returns one.
Handle(context, fault) ==
    /\ Len(pure.requests) < MaxRequests
    /\ IF fault = "none"
       THEN LET r == StartCheck(context, policies, store, isShutdown, now) IN
            /\ calls' = Append(calls, r.call)
            /\ store' = r.store
            /\ pure' = [pure EXCEPT !.requests =
                           Append(@, [action |-> context[action_tag],
                                      call |-> Len(calls) + 1, pc |-> "awaitCheck",
                                      fault |-> "none", decision |-> <<>>,
                                      res |-> NoResponse])]
       ELSE /\ pure' = [pure EXCEPT !.requests =
                           Append(@, [action |-> context[action_tag],
                                      call |-> 0, pc |-> "done",
                                      fault |-> fault, decision |-> <<>>,
                                      res |-> failOnError(NoResponse, policies,
                                                          context[action_tag],
                                                          fault = "catch")])]
            /\ UNCHANGED <<calls, store>>
    /\ UNCHANGED <<options, sweepTimer, isShutdown, now, last, policies>>

\* engine.check has resolved: the handler takes the decision, runs the hooks
\* and answers, or ends in its catch block when a hook throws.
Continue(k, fault) ==
    /\ pure.requests[k].pc = "awaitCheck"
    /\ calls[pure.requests[k].call].pc = "done"
    /\ LET q == pure.requests[k]
           decision == calls[q.call].decision[1]
       IN pure' = [pure EXCEPT !.requests[k] =
                      [q EXCEPT !.pc = "done", !.fault = fault,
                                !.decision = <<decision>>,
                                !.res = IF fault = "none"
                                        THEN sendDecision(q.res, q.action, decision)
                                        ELSE failOnError(q.res, policies, q.action,
                                                         fault = "catch")]]
    /\ UNCHANGED <<store, options, sweepTimer, isShutdown, now, last, policies, calls>>

NextMiddleware ==
    \/ \E context \in Contexts, fault \in Faults : Handle(context, fault)
    \/ \E n \in 1..Len(calls) : Resume(n)
    \/ \E k \in 1..Len(pure.requests), fault \in Faults : Continue(k, fault)
    \/ Shutdown
    \/ Tick

SpecMiddleware == InitMiddleware /\ [][NextMiddleware]_vars

HasHeader(res, name) == \E h \in 1..Len(res.headers) : res.headers[h][1] = name

HeaderValues(res, name) ==
    {res.headers[h][2] : h \in {x \in 1..Len(res.headers) : res.headers[x][1] = name}}

\* Exactly one of: next was called, once; a 429 with a Retry-After header went out.
OneAnswer(res) ==
    \/ Len(res.nextCalls) = 1 /\ res.status = <<>>
    \/ res.nextCalls = <<>> /\ res.status = <<429>> /\ HasHeader(res, "Retry-After")

\* C30 as stated: every request the handler has finished got exactly one of
\* next() and the 429, the 429 exactly when its decision has allowed = false,
\* and a CHALLENGE decision got next() with the X-RateLimit-Challenge header.
C30_Answer_AsStated ==
    pure.fn = "forAction" =>
        \A k \in 1..Len(pure.requests) :
            LET q == pure.requests[k] IN
            q.pc = "done" =>
                /\ OneAnswer(q.res)
                /\ q.res.status = <<429>>
                      <=> (q.decision # <<>> /\ ~q.decision[1].allowed)
                /\ (q.decision # <<>> /\ q.decision[1].outcome = "CHALLENGE")
                      => /\ q.res.nextCalls = << <<>> >>
                         /\ HasHeader(q.res, "X-RateLimit-Challenge")

\* C30, amended: every request the handler has finished got exactly one of
\* next() and the 429 with a Retry-After header. When nothing threw, the 429
\* went out exactly when the decision has allowed = false, with the decision's
\* retry time in seconds, and a CHALLENGE decision got next() with the
\* X-RateLimit-Challenge header. When something in the try block threw, the
\* decision does not count: a fail-open policy got next(), a fail-closed or
\* missing policy the 429 with Retry-After 60, and an error thrown again in
\* the catch block went to next.
C30_Answer ==
    pure.fn = "forAction" =>
        \A k \in 1..Len(pure.requests) :
            LET q == pure.requests[k] IN
            q.pc = "done" =>
                /\ OneAnswer(q.res)
                /\ q.fault = "none" =>
                      /\ q.decision # <<>>
                      /\ q.res.status = <<429>> <=> ~q.decision[1].allowed
                      /\ q.res.status = <<429>> =>
                            HeaderValues(q.res, "Retry-After") =
                               {toDecimalString(msToSeconds(q.decision[1].retryAfterMs))}
                      /\ q.res.status = <<>> => q.res.nextCalls = << <<>> >>
                      /\ HasHeader(q.res, "X-RateLimit-Challenge")
                            <=> q.decision[1].outcome = "CHALLENGE"
                      /\ q.decision[1].outcome = "CHALLENGE" =>
                            q.res.nextCalls = << <<>> >>
                /\ q.fault = "try" =>
                      IF failModeOf(policies, q.action) = "open"
                      THEN q.res.nextCalls = << <<>> >>
                      ELSE /\ q.res.status = <<429>>
                           /\ HeaderValues(q.res, "Retry-After") = {<<"6", "0">>}
                /\ q.fault = "catch" => q.res.nextCalls = << <<"error">> >>

\* A request finished without a throw on a CHALLENGE decision: next() was
\* called and the header carries the rule's challenge hint or 'required'.
C30_Witness ==
    /\ pure.fn = "forAction"
    /\ \E k \in 1..Len(pure.requests) :
          LET q == pure.requests[k] IN
          /\ q.pc = "done" /\ q.fault = "none"
          /\ q.decision[1].outcome = "CHALLENGE" /\ q.decision[1].allowed
          /\ q.res.nextCalls = << <<>> >> /\ q.res.status = <<>>
          /\ HeaderValues(q.res, "X-RateLimit-Challenge") # {}

-----------------------------------------------------------------------------
(* Sequential checks of two identities against a small store: the clock      *)
(* advances, buckets expire, sweeps run and a set of a new key can evict.    *)

MaxQuotaCalls == 3

QuotaContexts ==
    {(action_tag :> test_action) @@ (ip :> <<"1">>),
     (action_tag :> test_action) @@ (ip :> <<"2">>)}

InitQuota ==
    /\ \E highWaterMark \in 1..MaxHighWaterMark :
           InitStore(("highWaterMark" :> highWaterMark) @@ ("evictionCount" :> 1))
    /\ policies \in SeqPolicies
    /\ calls = <<>>
    /\ pure = NoPure

\* The caller awaits each check before it makes the next, for either identity.
CheckQuota(context) ==
    /\ Len(calls) < MaxQuotaCalls
    /\ \A n \in 1..Len(calls) : calls[n].pc = "done"
    /\ LET r == StartCheck(context, policies, store, isShutdown, now) IN
       /\ calls' = Append(calls, r.call)
       /\ store' = r.store
    /\ UNCHANGED <<options, sweepTimer, isShutdown, now, last, policies, pure>>

NextQuota ==
    \/ \E context \in QuotaContexts : CheckQuota(context)
    \/ \E n \in 1..Len(calls) : Resume(n)
    \/ Sweep
    \/ Tick

SpecQuota == InitQuota /\ [][NextQuota]_vars

\* The finished checks from the i-th to the j-th that were made for the key
\* and allowed.
AllowedBetween(key, i, j) ==
    {n \in i..j : /\ calls[n].pc = "done"
                  /\ calls[n].key = key
                  /\ calls[n].decision[1].allowed}

\* The quota of a key between two instants, times cost * refillIntervalMs:
\* n checks fit iff n * cost <= capacity + (t2 - t1) / refillIntervalMs * refillTokens.
FitsQuota(rule, n, t1, t2) ==
    n * CostOf(rule) * rule.refillIntervalMs
        <= rule.capacity * rule.refillIntervalMs + (t2 - t1) * rule.refillTokens

\* C31: for one key under sequential checks, the checks allowed between the
\* times of any two of its checks are at most
\* floor((capacity + (t2 - t1) / refillIntervalMs * refillTokens) / cost),
\* whatever checks of other keys, expiries, sweeps and evictions come between.
C31_RateBound ==
    \A i, j \in 1..Len(calls) :
        (i <= j /\ calls[i].pc = "done" /\ calls[j].pc = "done"
                /\ calls[i].key = calls[j].key)
            => FitsQuota(SeqRule, Cardinality(AllowedBetween(calls[i].key, i, j)),
                         calls[i].t, calls[j].t)

-----------------------------------------------------------------------------
(* The same checks against the store and against a bucket that is never     *)
(* replaced: one key, one rule, each check awaited before the next, the      *)
(* tokens doubles. pure.bucket is the bucket of the run in which no entry     *)
(* ever expires: it is created by the first check and refilled ever after.  *)

\* Small rules, and one that refills its whole capacity of 1 in one
\* millisecond, as 49 tokens per 49 ms.
ExpiryRules ==
    {[per_ip EXCEPT !.capacity = c.capacity, !.refillTokens = c.refillTokens,
                    !.refillIntervalMs = c.refillIntervalMs, !.cost = <<cost>>,
                    !.mode = <<"block">>, !.ttlMs = ttlMs] :
        c \in [capacity : 1..2, refillTokens : 1..2, refillIntervalMs : 1..2]
                 \cup {[capacity |-> 1, refillTokens |-> 49, refillIntervalMs |-> 49]},
        cost \in 1..2,
        ttlMs \in {<<>>, <<1>>, <<2>>}}

ExpiryPolicies ==
    {(test_action :> [id |-> test_action, rules |-> <<rule>>, failMode |-> "closed"]) :
        rule \in {r \in ExpiryRules : r.cost[1] <= r.capacity}}

InitExpiry ==
    /\ InitStore(<<>>)
    /\ policies \in ExpiryPolicies
    /\ calls = <<>>
    /\ pure = [fn |-> "neverExpires", bucket |-> <<>>]

\* check(SeqContext) from its call to its return, and the same check in the
\* run without expiry. last.value holds both rule results.
CheckExpiry ==
    LET rule == policies[test_action].rules[1]
        key == buildKey(test_action, rule, SeqContext)[1]
        config == ruleToConfig(rule)
        ttlMs == calculateDefaultTtl_f64(rule)
        cost == IF rule.cost = <<>> THEN 1 ELSE rule.cost[1]
        got == StoreGet(store, key, now)
        bucketState == IF got.value = <<>> \/ isBucketExpired(got.value[1], now)
                       THEN createBucket_f64(config, now, ttlMs)
                       ELSE got.value[1]
        consumeResult == consumeTokens_f64(bucketState, config, cost, now, ttlMs)
        kept == IF pure.bucket = <<>> THEN createBucket_f64(config, now, ttlMs)
                ELSE pure.bucket[1]
        keptResult == consumeTokens_f64(kept, config, cost, now, ttlMs)
    IN /\ ~isShutdown
       /\ store' = StoreSet(got.store, options, key, consumeResult.bucketState, now)
       /\ last' = [NoCall EXCEPT
               !.op = "check", !.key = key,
               !.value = <<[result |-> RuleOutcome(rule, key, consumeResult),
                            kept |-> RuleOutcome(rule, key, keptResult),
                            replaced |-> got.value = <<>> /\ pure.bucket # <<>>]>>]
       /\ pure' = [pure EXCEPT !.bucket = <<keptResult.bucketState>>]
       /\ UNCHANGED <<options, sweepTimer, isShutdown, now, policies, calls>>

NextExpiry ==
    \/ CheckExpiry
    \/ TickRetry
    \/ Sweep

SpecExpiry == InitExpiry /\ [][NextExpiry]_vars

\* ttl >= (capacity / refillTokens) * refillIntervalMs
CoversFullRefill(rule) ==
    calculateDefaultTtl_f64(rule) * rule.refillTokens
        >= rule.capacity * rule.refillIntervalMs

-----------------------------------------------------------------------------
(* The store's size against its high-water mark *)

\* C33: for 1 <= evictionCount <= highWaterMark the map holds at most
\* highWaterMark entries in every reachable state of the store.
C33_SizeBounded ==
    (1 <= options.evictionCount /\ options.evictionCount <= options.highWaterMark)
        => Len(store) <= options.highWaterMark

\* A set of a new key found the map at the high-water mark, evicted, and
\* left it at the mark again.
C33_Witness ==
    /\ 1 <= options.evictionCount /\ options.evictionCount <= options.highWaterMark
    /\ last.op = "set" /\ last.evicting
    /\ Len(last.pre) = options.highWaterMark
    /\ options.highWaterMark > 1
    /\ Len(store) = options.highWaterMark

-----------------------------------------------------------------------------
(* Two buildKey calls side by side *)

\* Action ids and rule names with and without the key separator.
PairActions == {<<"t">>, <<"t", ":", "u">>}

PairRuleNames == {<<"r">>, <<"u", ":", "r">>}

\* Values of the ip dimension: plain, with a separator, and with the
\* character sanitizeValue puts in its place.
PairValues == {<<"1">>, <<"1", ":">>, <<"1", "_">>}

\* What one buildKey call is given: the action, the rule and the context.
PairInputs ==
    {[action |-> a, rule |-> [name |-> name, key |-> dimensions],
      context |-> (action_tag :> a) @@ (ip :> value)] :
        a \in PairActions, name \in PairRuleNames,
        dimensions \in {<<>>, <<ip>>}, value \in PairValues}

InitPair ==
    /\ InitStore(<<>>)
    /\ policies = <<>>
    /\ calls = <<>>
    /\ \E one \in PairInputs, other \in PairInputs :
           pure = [fn |-> "input", one |-> one, other |-> other, keys |-> <<>>]

ApplyBuildKeyTwice ==
    /\ pure.fn = "input"
    /\ pure' = [pure EXCEPT
           !.fn = "buildKey",
           !.keys = <<buildKey(pure.one.action, pure.one.rule, pure.one.context),
                      buildKey(pure.other.action, pure.other.rule, pure.other.context)>>]
    /\ UNCHANGED <<store, options, sweepTimer, isShutdown, now, last, policies, calls>>

NextPair == ApplyBuildKeyTwice

SpecPair == InitPair /\ [][NextPair]_vars

\* The two calls differ in the action, the rule name or the value of a
\* dimension both rules declare.
DifferentIdentity(one, other) ==
    \/ one.action # other.action
    \/ one.rule.name # other.rule.name
    \/ /\ one.rule.key = other.rule.key
       /\ \E d \in 1..Len(one.rule.key) :
              one.context[one.rule.key[d]] # other.context[other.rule.key[d]]

\* C34: two buildKey calls that differ in the action, the rule name or the
\* value of a declared dimension never return the same key.
C34_KeysSeparate ==
    (/\ pure.fn = "buildKey"
     /\ pure.keys[1] # <<>> /\ pure.keys[2] # <<>>
     /\ DifferentIdentity(pure.one, pure.other))
        => pure.keys[1] # pure.keys[2]

-----------------------------------------------------------------------------
(* refillBucket in one step and in two, in double arithmetic *)

\* A bucket with whole tokens last refilled at time 0, a refilling config and
\* two later times.
InitRefill ==
    /\ InitStore(<<>>)
    /\ policies = <<>>
    /\ calls = <<>>
    /\ \E capacity \in 1..MaxBucketCapacity, refillTokens \in 1..MaxRefillTokens,
          refillIntervalMs \in 1..MaxIntervalMs :
       \E tokens \in 0..capacity, t1 \in 0..MaxClock :
       \E t2 \in t1..MaxClock :
           pure = [fn |-> "input",
                   config |-> [capacity |-> capacity, refillTokens |-> refillTokens,
                               refillIntervalMs |-> refillIntervalMs],
                   state |-> [tokens |-> FromInt(tokens), lastRefillTime |-> 0,
                              createdAt |-> 0, expiresAt |-> MaxClock + 1],
                   t1 |-> t1, t2 |-> t2, twice |-> <<>>, once |-> <<>>]

ApplyRefillTwice ==
    /\ pure.fn = "input"
    /\ pure' = [pure EXCEPT
           !.fn = "refillBucket",
           !.twice = <<refillBucket_f64(refillBucket_f64(pure.state, pure.config, pure.t1),
                                        pure.config, pure.t2)>>,
           !.once = <<refillBucket_f64(pure.state, pure.config, pure.t2)>>]
    /\ UNCHANGED <<store, options, sweepTimer, isShutdown, now, last, policies, calls>>

NextRefill == ApplyRefillTwice

SpecRefill == InitRefill /\ [][NextRefill]_vars

\* C35: for lastRefillTime <= t1 <= t2, refillBucket(refillBucket(s, t1), t2)
\* has the same tokens and lastRefillTime as refillBucket(s, t2).
C35_RefillAdditive ==
    pure.fn = "refillBucket" =>
        /\ FCmp(pure.twice[1].tokens, pure.once[1].tokens) = 0
        /\ pure.twice[1].lastRefillTime = pure.once[1].lastRefillTime

-----------------------------------------------------------------------------
(* The expiry boundary: the store's calls and isBucketExpired on one clock *)

\* A caller asks isBucketExpired about a bucket state at the present time.
ApplyIsBucketExpired ==
    /\ \E state \in StoreStates :
           last' = [NoCall EXCEPT
               !.op = "isBucketExpired",
               !.entry = <<[key |-> <<>>, state |-> state, lastAccessedAt |-> 0]>>,
               !.value = <<isBucketExpired(state, now)>>]
    /\ UNCHANGED <<store, options, sweepTimer, isShutdown, now, policies, calls, pure>>

NextBoundary ==
    \/ \E key \in StoreKeys : Get(key)
    \/ \E key \in StoreKeys : Has(key)
    \/ \E key \in StoreKeys, state \in StoreStates : Set(key, state)
    \/ ApplyIsBucketExpired
    \/ Sweep
    \/ Shutdown
    \/ Tick

SpecBoundary == Init /\ [][NextBoundary]_vars

\* The entries of the map an evicting set found that expire at time t.
ExpiringAt(s, t) == {e \in Entries(s) : e.state.expiresAt = t}

\* After an evicting set: the entries it found other than those it removed.
KeptByEviction(s) == {e \in Entries(s) : MapHas(store, e.key)}

\* isBucketExpired, get, has and sweep at the boundary: an entry that expires
\* now is expired (true, undefined, false, deleted), one that expires at
\* now + 1 is live.
BoundaryAtCalls ==
    /\ (last.op = "isBucketExpired")
          => /\ last.entry[1].state.expiresAt = now => last.value = <<TRUE>>
             /\ last.entry[1].state.expiresAt = now + 1 => last.value = <<FALSE>>
    /\ (last.op = "get" /\ ~last.threw /\ last.entry # <<>>)
          => /\ last.entry[1].state.expiresAt = now
                   => last.value = <<>> /\ ~MapHas(store, last.key)
             /\ last.entry[1].state.expiresAt = now + 1
                   => last.value = <<last.entry[1].state>> /\ MapHas(store, last.key)
    /\ (last.op = "has" /\ ~last.threw /\ last.entry # <<>>)
          => /\ last.entry[1].state.expiresAt = now
                   => last.value = <<FALSE>> /\ ~MapHas(store, last.key)
             /\ last.entry[1].state.expiresAt = now + 1
                   => last.value = <<TRUE>> /\ MapHas(store, last.key)
    /\ (last.op = "sweep" /\ ~isShutdown)
          => /\ \A e \in ExpiringAt(last.pre, now) : ~MapHas(store, e.key)
             /\ \A e \in ExpiringAt(last.pre, now + 1) : e \in Entries(store)

\* An entry that expires at now + 1 is removed by an eviction only after
\* every expired entry, that is by phase 2.
LiveForPhaseOne ==
    (last.op = "set" /\ last.evicting
        /\ ExpiringAt(last.pre, now + 1) \ KeptByEviction(last.pre) # {})
        => \A e \in Entries(last.pre) :
               e.state.expiresAt <= now => e \notin KeptByEviction(last.pre)

-----------------------------------------------------------------------------
(* What get and has leave alone *)

\* A get that returns a live entry sets that entry's lastAccessedAt to now
\* and changes nothing else in the store.
GetTouchesOnly ==
    (last'.op = "get" /\ ~last'.threw /\ last'.value # <<>>)
        => /\ MapHas(store, last'.key)
           /\ store' = [store EXCEPT ![MapIndex(store, last'.key)].lastAccessedAt = now]

\* C37 as stated: a get that returns a live entry only sets its
\* lastAccessedAt to now; a has changes no lastAccessedAt, no live entry's
\* state and not the store size.
C37_TouchFrame_AsStated ==
    [][/\ GetTouchesOnly
       /\ (last'.op = "has" /\ ~last'.threw)
             => /\ Len(store') = Len(store)
                /\ \A e \in Entries(store) :
                       ~EntryExpired(e, now) => e \in Entries(store')]_vars

\* C37, amended: a get that returns a live entry only sets its lastAccessedAt
\* to now; a has of a live or absent key changes nothing in the store, and a
\* has of an expired entry deletes that entry and changes nothing else, so no
\* has changes a lastAccessedAt or a live entry.
C37_TouchFrame ==
    [][/\ GetTouchesOnly
       /\ (last'.op = "has" /\ ~last'.threw)
             => IF last'.value = <<TRUE>> \/ ~MapHas(store, last'.key)
                THEN store' = store
                ELSE /\ EntryExpired(MapGet(store, last'.key)[1], now)
                     /\ store' = MapDelete(store, last'.key)]_vars

\* A has affirmed an entry beside another one and left its earlier
\* lastAccessedAt as it was.
C37_Witness ==
    /\ last.op = "has" /\ last.value = <<TRUE>>
    /\ Len(store) > 1
    /\ MapGet(store, last.key)[1].lastAccessedAt < now
    /\ MapGet(store, last.key) = last.entry

-----------------------------------------------------------------------------
(* A set on a key the map already holds *)

\* C38: a set on a key that is in the map, expired or not and whatever the
\* size, replaces that entry's state and lastAccessedAt in place: no
\* eviction, the same size, every other entry as it was.
C38_UpdateInPlace ==
    [][(last'.op = "set" /\ ~last'.threw /\ MapHas(store, last'.key))
          => /\ ~last'.evicting
             /\ Len(store') = Len(store)
             /\ \A i \in 1..Len(store) :
                    IF store[i].key = last'.key
                    THEN /\ store'[i].key = last'.key
                         /\ store'[i].lastAccessedAt = now
                         /\ store'[i].state \in StoreStates
                    ELSE store'[i] = store[i]]_vars

\* A set on an expired entry of a map at its high-water mark that holds
\* another entry too: the entry has the new lastAccessedAt and an unexpired
\* state, and the map its size.
C38_Witness ==
    /\ last.op = "set" /\ ~last.threw /\ ~last.evicting
    /\ last.entry # <<>>
    /\ last.entry[1].state.expiresAt <= now
    /\ last.entry[1].lastAccessedAt < now
    /\ Len(store) >= options.highWaterMark
    /\ Len(store) > 1
    /\ MapGet(store, last.key)[1].lastAccessedAt = now
    /\ MapGet(store, last.key)[1].state.expiresAt > now

-----------------------------------------------------------------------------
(* A rule that costs more than its bucket holds *)

\* C39: for a rule whose cost is greater than its capacity, every finished
\* check that evaluated the rule was denied, at every clock reading and
\* whatever the store held, and with refillTokens > 0 and refillIntervalMs > 0
\* the denial reports a finite retryAfterMs: at least 1 and at most the time
\* to refill the whole cost.
C39_CostAboveCapacity ==
    CostOf(SeqRule) > SeqRule.capacity =>
        \A n \in 1..Len(calls) :
            (calls[n].pc = "done" /\ calls[n].decision[1].ruleResults # <<>>) =>
                LET decision == calls[n].decision[1]
                    result == decision.ruleResults[1]
                IN /\ ~result.allowed
                   /\ ~decision.allowed /\ decision.outcome = "BLOCKED"
                   /\ result.remainingTokens < CostOf(SeqRule) * Scale(ruleToConfig(SeqRule))
                   /\ (SeqRule.refillTokens > 0 /\ SeqRule.refillIntervalMs > 0)
                         => /\ result.retryAfterMs >= 1
                            /\ result.retryAfterMs
                                  <= CostOf(SeqRule) * SeqRule.refillIntervalMs
                            /\ decision.retryAfterMs = result.retryAfterMs

\* A rule of capacity 1 and cost 2 whose bucket was checked, left to refill
\* for two clock readings and checked again: denied both times.
C39_Witness ==
    /\ SeqRule.capacity = 1 /\ CostOf(SeqRule) = 2
    /\ \E n, k \in 1..Len(calls) :
          /\ n < k
          /\ calls[n].pc = "done" /\ calls[k].pc = "done"
          /\ calls[n].key = calls[k].key
          /\ calls[k].t >= calls[n].t + 2
          /\ ~calls[n].decision[1].allowed /\ ~calls[k].decision[1].allowed
          /\ calls[k].decision[1].ruleResults[1].retryAfterMs >= 1

=============================================================================
